---- MODULE Spec2Model ----
(***************************************************************************)
(* Model of pretty-bad-poker-sim: the card model and the decks             *)
(* (lib/card-utils.js, lib/random-utils.js), the hand evaluator            *)
(* (lib/hand-eval.js), rounds and tables (lib/poker-round.js,              *)
(* lib/poker-table.js), the matches of a round (lib/hand-match.js) and the *)
(* simulation driver (lib/simulator.js) with its                           *)
(* HandImprovementSimulator.                                               *)
(*                                                                         *)
(* The specifications of the module share its variables:                   *)
(*   Spec         one hand is handed to the evaluator's entry points       *)
(*   PocketSpec   a pocket is handed to getPocketEvaluation                *)
(*   CardSpec     identifiers and components are converted                 *)
(*   DeckSpec     a partially stacked deck is built                        *)
(*   TableSpec    a table makes a factory of stacked decks and plays       *)
(*   DealSpec     a table plays a round and the round is read              *)
(*   RoundSpec    the winners of a round are asked for                     *)
(*   MatchSpec    matches are run against a round                          *)
(*   CtorSpec     a Simulator is constructed from JavaScript values        *)
(*   SimSpec      one Simulator object is constructed and run              *)
(*   ImproveSpec  one HandImprovementSimulator is constructed and run      *)
(***************************************************************************)
EXTENDS Integers, Sequences, FiniteSets, TLC

VARIABLES
    hand,       \* the array of card identifiers handed to the evaluator
    call,       \* the entry point called last ("none" before any call)
    operands,   \* the arguments of calls that take other things than a hand
    returned,   \* what that call returned or threw
    sim,        \* the Simulator object: trials, trialAttempts, roundsPerCycle, running, hasRun
    pc,         \* where run()'s promise chain stands
    loc,        \* run()'s closure: trialCount, trialAttemptCount, finished, roundContext
    i,          \* the inner for loop's index in the current batch
    promise,    \* state of the promise returned by run()
    policy,     \* the hooks of the subclass and the fields they keep
    lastRun,    \* outcome of the latest run() invocation
    progress    \* number of calls of _progress and the data of the last one

evalVars == <<hand, call, operands, returned>>
simVars == <<sim, pc, loc, i, promise, policy, lastRun, progress>>
vars == <<hand, call, operands, returned, sim, pc, loc, i, promise, policy, lastRun, progress>>

----------------------------------------------------------------------------
(* Bounds of the model *)

\* the hands are drawn from the first DeckSize cards of DealtCards
DeckSize == 13

\* the short, long and repeated-card hands are drawn from the
\* first SmallDeckSize cards of the deck
SmallDeckSize == 7

----------------------------------------------------------------------------
(* lib/card-utils.js *)

ACE_LOW == 1
FIVE == 5
ACE == 14

INVALID_ARGUMENT == "invalid_argument"
INTERNAL_ERROR == "internal_error"

\* a call either returns a value or throws an XError with a code
Throw(code) == [threw |-> TRUE, code |-> code]
Return(v) == [threw |-> FALSE, val |-> v]

validateCard(cardId) ==
    IF cardId < 1 \/ cardId > 52 THEN Throw(INVALID_ARGUMENT) ELSE Return(cardId)

\* variant: the suit changes one identifier early
getCardComponents_SuitOffByOne(cardId) ==
    LET value0 == (cardId % 13) + 1
        value == IF value0 = 1 THEN 14 ELSE value0
        suit == (cardId \div 13) + 1
    IN  [cardId |-> cardId, value |-> value, suit |-> suit]

\* the components of an identifier that validateCard has let through
getCardComponents(cardId) ==
    LET value0 == (cardId % 13) + 1
        value == IF value0 = 1 THEN 14 ELSE value0
        suit == ((cardId - 1) \div 13) + 1
    IN  [cardId |-> cardId, value |-> value, suit |-> suit]

getCardComponentsArray(cardIdArray) ==
    [k \in 1..Len(cardIdArray) |-> getCardComponents(cardIdArray[k])]

getCardIdFromComponents(value, suit) ==
    IF value < 2 \/ value > 14 THEN Throw(INVALID_ARGUMENT)
    ELSE IF suit < 1 \/ suit > 4 THEN Throw(INVALID_ARGUMENT)
    ELSE LET suitVal == (suit - 1) * 13
             valueVal == value - 1
         IN  Return(suitVal + valueVal)

----------------------------------------------------------------------------
(* Array.prototype.sort with a comparator: elements for which the          *)
(* comparator is negative come first, equal elements keep their order.     *)

ArraySort(s, cmp(_, _)) ==
    LET n == Len(s)
        pos == [k \in 1..n |->
                  1 + Cardinality({j \in 1..n :
                        \/ cmp(s[j], s[k]) < 0
                        \/ (cmp(s[j], s[k]) = 0 /\ j < k)})]
    IN  [p \in 1..n |-> s[CHOOSE k \in 1..n : pos[k] = p]]

\* slice(0, n)
Take(s, n) == IF Len(s) <= n THEN s ELSE SubSeq(s, 1, n)

----------------------------------------------------------------------------
(* lib/hand-eval.js: helpers *)

Null == [type |-> "null"]

getCardIdsFromCardArray(cardArray) == [k \in 1..Len(cardArray) |-> cardArray[k].cardId]

getCardValuesFromCardArray(cardArray) == [k \in 1..Len(cardArray) |-> cardArray[k].value]

\* comparator used for cardsByValue and for the kickers
CompareByValue(a, b) ==
    IF a.value > b.value THEN -1
    ELSE IF a.value < b.value THEN 1
    ELSE IF a.suit > b.suit THEN -1
    ELSE IF a.suit < b.suit THEN 1
    ELSE 0

\* comparator used for cardsBySuit
CompareBySuit(a, b) ==
    IF a.suit > b.suit THEN -1
    ELSE IF a.suit < b.suit THEN 1
    ELSE IF a.value > b.value THEN -1
    ELSE IF a.value < b.value THEN 1
    ELSE 0

\* comparator used for cardGroupsBySize
CompareGroups(a, b) ==
    IF Len(a) > Len(b) THEN -1
    ELSE IF Len(a) < Len(b) THEN 1
    ELSE IF a[1].value > b[1].value THEN -1
    ELSE IF a[1].value < b[1].value THEN 1
    ELSE 0

\* variant: the kickers are left in the order of the hand
getKickers_Unsorted(cardsInHand, resultCards) ==
    LET resultCardIds == {resultCards[k].cardId : k \in 1..Len(resultCards)}
    IN  SelectSeq(cardsInHand, LAMBDA card : card.cardId \notin resultCardIds)

getKickers(cardsInHand, resultCards) ==
    LET resultCardIds == {resultCards[k].cardId : k \in 1..Len(resultCards)}
        kickers == SelectSeq(cardsInHand, LAMBDA card : card.cardId \notin resultCardIds)
    IN  ArraySort(kickers, CompareByValue)

\* variant: >= where the source has >
RECURSIVE compareValueArraysFrom_GreaterOrEqual(_, _, _)
compareValueArraysFrom_GreaterOrEqual(a, b, k) ==
    IF k > Len(a) THEN 0
    ELSE IF a[k] >= b[k] THEN -1
    ELSE IF a[k] < b[k] THEN 1
    ELSE compareValueArraysFrom_GreaterOrEqual(a, b, k + 1)

RECURSIVE compareValueArraysFrom(_, _, _)
compareValueArraysFrom(a, b, k) ==
    IF k > Len(a) THEN 0
    ELSE IF a[k] > b[k] THEN -1
    ELSE IF a[k] < b[k] THEN 1
    ELSE compareValueArraysFrom(a, b, k + 1)

compareValueArrays(a, b) ==
    IF Len(a) # Len(b) THEN Throw(INTERNAL_ERROR)
    ELSE Return(compareValueArraysFrom(a, b, 1))

----------------------------------------------------------------------------
(* lib/hand-eval.js: getEvalContext *)

\* the grouping loop over cardsByValue
RECURSIVE GroupCards(_, _, _, _)
GroupCards(cardsByValue, k, groups, currentGroup) ==
    IF k > Len(cardsByValue)
    THEN IF currentGroup # <<>> THEN Append(groups, currentGroup) ELSE groups
    ELSE LET card == cardsByValue[k]
         IN  IF currentGroup = <<>>
             THEN GroupCards(cardsByValue, k + 1, groups, <<card>>)
             ELSE IF card.value = currentGroup[1].value
             THEN GroupCards(cardsByValue, k + 1, groups, Append(currentGroup, card))
             ELSE GroupCards(cardsByValue, k + 1, Append(groups, currentGroup), <<card>>)

\* variant: the antiduplication check walks the hand as given, not cardsBySuit
getEvalContext_AdjacentInHand(h) ==
    IF Len(h) < 5 THEN Throw(INVALID_ARGUMENT)
    ELSE IF Len(h) > 7 THEN Throw(INVALID_ARGUMENT)
    ELSE IF \E k \in 1..Len(h) : validateCard(h[k]).threw THEN Throw(INVALID_ARGUMENT)
    ELSE
    LET cards == getCardComponentsArray(h)
        cardsByValue == ArraySort(cards, CompareByValue)
        cardGroupsBySize == ArraySort(GroupCards(cardsByValue, 1, <<>>, <<>>), CompareGroups)
        cardsBySuit == ArraySort(cards, CompareBySuit)
    IN  IF \E k \in 1..(Len(cards) - 1) : cards[k].cardId = cards[k + 1].cardId
        THEN Throw(INVALID_ARGUMENT)
        ELSE Return([hand |-> h, cards |-> cards, cardsByValue |-> cardsByValue,
                     cardGroupsBySize |-> cardGroupsBySize, cardsBySuit |-> cardsBySuit])

getEvalContext(h) ==
    IF Len(h) < 5 THEN Throw(INVALID_ARGUMENT)
    ELSE IF Len(h) > 7 THEN Throw(INVALID_ARGUMENT)
    ELSE IF \E k \in 1..Len(h) : validateCard(h[k]).threw THEN Throw(INVALID_ARGUMENT)
    ELSE
    LET cards == getCardComponentsArray(h)
        cardsByValue == ArraySort(cards, CompareByValue)
        cardGroupsBySize == ArraySort(GroupCards(cardsByValue, 1, <<>>, <<>>), CompareGroups)
        cardsBySuit == ArraySort(cards, CompareBySuit)
    IN  IF \E k \in 1..(Len(cardsBySuit) - 1) : cardsBySuit[k].cardId = cardsBySuit[k + 1].cardId
        THEN Throw(INVALID_ARGUMENT)
        ELSE Return([hand |-> h, cards |-> cards, cardsByValue |-> cardsByValue,
                     cardGroupsBySize |-> cardGroupsBySize, cardsBySuit |-> cardsBySuit])

----------------------------------------------------------------------------
(* lib/hand-eval.js: the result evaluators *)

NoAces == [s \in 1..4 |-> Null]

\* the scan of evaluators['straight-flush'].evaluate; yields currentStraight
RECURSIVE StraightFlushScan(_, _, _, _)
StraightFlushScan(cardsBySuit, k, currentStraight, acesBySuit) ==
    IF k > Len(cardsBySuit) THEN currentStraight
    ELSE
    LET card == cardsBySuit[k]
        aces == IF card.value = ACE THEN [acesBySuit EXCEPT ![card.suit] = card] ELSE acesBySuit
    IN  IF currentStraight = <<>>
        THEN StraightFlushScan(cardsBySuit, k + 1, <<card>>, aces)
        ELSE IF /\ card.suit = currentStraight[1].suit
                /\ card.value = currentStraight[Len(currentStraight)].value - 1
        THEN LET pushed == Append(currentStraight, card)
             IN  IF Len(pushed) = 5 THEN pushed
                 ELSE IF /\ Len(pushed) = 4
                         /\ pushed[Len(pushed)].value = 2
                         /\ aces[pushed[1].suit] # Null
                 THEN Append(pushed, aces[pushed[1].suit])
                 ELSE StraightFlushScan(cardsBySuit, k + 1, pushed, aces)
        ELSE StraightFlushScan(cardsBySuit, k + 1, <<card>>, aces)

EvalStraightFlush(context) ==
    LET currentStraight == StraightFlushScan(context.cardsBySuit, 1, <<>>, NoAces)
    IN  IF Len(currentStraight) = 5
        THEN [type |-> "straight-flush",
              suit |-> currentStraight[1].suit,
              highValue |-> currentStraight[1].value,
              cardIds |-> getCardIdsFromCardArray(currentStraight)]
        ELSE Null

EvalFourOfAKind(context) ==
    LET groups == context.cardGroupsBySize
        winningGroup == IF Len(groups) > 0 /\ Len(groups[1]) >= 4
                        THEN Take(groups[1], 4) ELSE <<>>
    IN  IF winningGroup # <<>>
        THEN LET kickers == getKickers(context.cards, winningGroup)
             IN  [type |-> "four-of-a-kind",
                  value |-> winningGroup[1].value,
                  kickerValues |-> getCardValuesFromCardArray(Take(kickers, 1)),
                  cardIds |-> getCardIdsFromCardArray(winningGroup \o <<kickers[1]>>)]
        ELSE Null

\* the loop of evaluators['full-house'].evaluate; yields <<threeGroup, twoGroup>>
RECURSIVE FullHouseScan(_, _, _, _)
FullHouseScan(groups, k, threeGroup, twoGroup) ==
    IF k > Len(groups) THEN <<threeGroup, twoGroup>>
    ELSE
    LET cardGroup == groups[k]
    IN  IF Len(cardGroup) >= 3
        THEN IF threeGroup = <<>>
             THEN FullHouseScan(groups, k + 1, Take(cardGroup, 3), twoGroup)
             ELSE IF twoGroup = <<>>
             THEN <<threeGroup, Take(cardGroup, 2)>>
             ELSE FullHouseScan(groups, k + 1, threeGroup, twoGroup)
        ELSE IF Len(cardGroup) = 2
        THEN IF twoGroup = <<>> THEN <<threeGroup, Take(cardGroup, 2)>>
                                ELSE <<threeGroup, twoGroup>>
        ELSE <<threeGroup, twoGroup>>

EvalFullHouse(context) ==
    LET found == FullHouseScan(context.cardGroupsBySize, 1, <<>>, <<>>)
        threeGroup == found[1]
        twoGroup == found[2]
    IN  IF threeGroup # <<>> /\ twoGroup # <<>>
        THEN [type |-> "full-house",
              threeValue |-> threeGroup[1].value,
              twoValue |-> twoGroup[1].value,
              cardIds |-> getCardIdsFromCardArray(threeGroup \o twoGroup)]
        ELSE Null

\* the scan of evaluators['flush'].evaluate; yields the five cards or << >>
RECURSIVE FlushScan(_, _, _)
FlushScan(cardsBySuit, k, currentFlush) ==
    IF k > Len(cardsBySuit) THEN <<>>
    ELSE
    LET card == cardsBySuit[k]
    IN  IF currentFlush = <<>>
        THEN FlushScan(cardsBySuit, k + 1, <<card>>)
        ELSE IF card.suit = currentFlush[1].suit
        THEN LET pushed == Append(currentFlush, card)
             IN  IF Len(pushed) = 5 THEN pushed
                 ELSE FlushScan(cardsBySuit, k + 1, pushed)
        ELSE FlushScan(cardsBySuit, k + 1, <<card>>)

EvalFlush(context) ==
    LET currentFlush == FlushScan(context.cardsBySuit, 1, <<>>)
    IN  IF currentFlush # <<>>
        THEN [type |-> "flush",
              suit |-> currentFlush[1].suit,
              kickerValues |-> getCardValuesFromCardArray(currentFlush),
              cardIds |-> getCardIdsFromCardArray(currentFlush)]
        ELSE Null

\* variant: the wheel's Ace is put in front of the run instead of behind it
RECURSIVE StraightScan_AceInFront(_, _, _, _)
StraightScan_AceInFront(cardsByValue, k, currentStraight, aceCard) ==
    IF k > Len(cardsByValue) THEN currentStraight
    ELSE
    LET card == cardsByValue[k]
        ace == IF card.value = ACE /\ aceCard = Null THEN card ELSE aceCard
    IN  IF currentStraight = <<>>
        THEN StraightScan_AceInFront(cardsByValue, k + 1, <<card>>, ace)
        ELSE IF card.value = currentStraight[Len(currentStraight)].value
        THEN StraightScan_AceInFront(cardsByValue, k + 1, currentStraight, ace)
        ELSE IF card.value = currentStraight[Len(currentStraight)].value - 1
        THEN LET pushed == Append(currentStraight, card)
             IN  IF Len(pushed) = 5 THEN pushed
                 ELSE IF /\ Len(pushed) = 4
                         /\ pushed[Len(pushed)].value = 2
                         /\ ace # Null
                 THEN <<ace>> \o pushed
                 ELSE StraightScan_AceInFront(cardsByValue, k + 1, pushed, ace)
        ELSE StraightScan_AceInFront(cardsByValue, k + 1, <<card>>, ace)

\* the scan of evaluators['straight'].evaluate; yields currentStraight
RECURSIVE StraightScan(_, _, _, _)
StraightScan(cardsByValue, k, currentStraight, aceCard) ==
    IF k > Len(cardsByValue) THEN currentStraight
    ELSE
    LET card == cardsByValue[k]
        ace == IF card.value = ACE /\ aceCard = Null THEN card ELSE aceCard
    IN  IF currentStraight = <<>>
        THEN StraightScan(cardsByValue, k + 1, <<card>>, ace)
        ELSE IF card.value = currentStraight[Len(currentStraight)].value
        THEN StraightScan(cardsByValue, k + 1, currentStraight, ace)
        ELSE IF card.value = currentStraight[Len(currentStraight)].value - 1
        THEN LET pushed == Append(currentStraight, card)
             IN  IF Len(pushed) = 5 THEN pushed
                 ELSE IF /\ Len(pushed) = 4
                         /\ pushed[Len(pushed)].value = 2
                         /\ ace # Null
                 THEN Append(pushed, ace)
                 ELSE StraightScan(cardsByValue, k + 1, pushed, ace)
        ELSE StraightScan(cardsByValue, k + 1, <<card>>, ace)

EvalStraight(context) ==
    LET currentStraight == StraightScan(context.cardsByValue, 1, <<>>, Null)
    IN  IF Len(currentStraight) = 5
        THEN [type |-> "straight",
              highValue |-> currentStraight[1].value,
              cardIds |-> getCardIdsFromCardArray(currentStraight)]
        ELSE Null

EvalThreeOfAKind(context) ==
    LET groups == context.cardGroupsBySize
        threeGroup == IF Len(groups) > 0 /\ Len(groups[1]) >= 3
                      THEN Take(groups[1], 3) ELSE <<>>
    IN  IF threeGroup # <<>>
        THEN LET kickers == Take(getKickers(context.cards, threeGroup), 2)
             IN  [type |-> "three-of-a-kind",
                  value |-> threeGroup[1].value,
                  kickerValues |-> getCardValuesFromCardArray(kickers),
                  cardIds |-> getCardIdsFromCardArray(threeGroup \o kickers)]
        ELSE Null

\* the loop of evaluators['two-pair'].evaluate; yields groups
RECURSIVE TwoPairScan(_, _, _)
TwoPairScan(cardGroups, k, groups) ==
    IF k > Len(cardGroups) THEN groups
    ELSE IF Len(cardGroups[k]) >= 2
    THEN LET pushed == Append(groups, Take(cardGroups[k], 2))
         IN  IF Len(pushed) = 2 THEN pushed ELSE TwoPairScan(cardGroups, k + 1, pushed)
    ELSE groups

\* variant: every other card of the hand is a kicker of the two pairs
EvalTwoPair_AllKickers(context) ==
    LET groups == TwoPairScan(context.cardGroupsBySize, 1, <<>>)
    IN  IF Len(groups) = 2
        THEN LET twoPairCards == groups[1] \o groups[2]
                 kickers == getKickers(context.cards, twoPairCards)
             IN  [type |-> "two-pair",
                  values |-> <<groups[1][1].value, groups[2][1].value>>,
                  kickerValues |-> getCardValuesFromCardArray(kickers),
                  cardIds |-> getCardIdsFromCardArray(twoPairCards \o kickers)]
        ELSE Null

EvalTwoPair(context) ==
    LET groups == TwoPairScan(context.cardGroupsBySize, 1, <<>>)
    IN  IF Len(groups) = 2
        THEN LET twoPairCards == groups[1] \o groups[2]
                 kickers == Take(getKickers(context.cards, twoPairCards), 1)
             IN  [type |-> "two-pair",
                  values |-> <<groups[1][1].value, groups[2][1].value>>,
                  kickerValues |-> getCardValuesFromCardArray(kickers),
                  cardIds |-> getCardIdsFromCardArray(twoPairCards \o kickers)]
        ELSE Null

EvalPair(context) ==
    LET groups == context.cardGroupsBySize
        twoGroup == IF Len(groups) > 0 /\ Len(groups[1]) >= 2
                    THEN Take(groups[1], 2) ELSE <<>>
    IN  IF twoGroup # <<>>
        THEN LET kickers == Take(getKickers(context.cards, twoGroup), 3)
             IN  [type |-> "pair",
                  value |-> twoGroup[1].value,
                  kickerValues |-> getCardValuesFromCardArray(kickers),
                  cardIds |-> getCardIdsFromCardArray(twoGroup \o kickers)]
        ELSE Null

EvalHighCards(context) ==
    LET kickers == Take(context.cardsByValue, 5)
    IN  [type |-> "high-cards",
         kickerValues |-> getCardValuesFromCardArray(kickers),
         cardIds |-> getCardIdsFromCardArray(kickers)]

----------------------------------------------------------------------------
(* lib/hand-eval.js: the draw evaluators *)

Max(a, b) == IF a > b THEN a ELSE b

\* the scan of evaluators['flush-draw'].evaluate; yields bestFlush
RECURSIVE FlushDrawScan(_, _, _, _)
FlushDrawScan(cardsBySuit, k, currentFlush, bestFlush) ==
    IF k > Len(cardsBySuit)
    THEN IF bestFlush = <<>> \/ Len(currentFlush) > Len(bestFlush)
         THEN currentFlush ELSE bestFlush
    ELSE
    LET card == cardsBySuit[k]
    IN  IF currentFlush = <<>>
        THEN FlushDrawScan(cardsBySuit, k + 1, <<card>>, bestFlush)
        ELSE IF card.suit = currentFlush[1].suit
        THEN FlushDrawScan(cardsBySuit, k + 1, Append(currentFlush, card), bestFlush)
        ELSE IF bestFlush = <<>> \/ Len(currentFlush) > Len(bestFlush)
        THEN FlushDrawScan(cardsBySuit, k + 1, <<card>>, currentFlush)
        ELSE FlushDrawScan(cardsBySuit, k + 1, <<card>>, bestFlush)

\* variant: three cards of a suit are enough whatever the size of the hand
EvalFlushDraw_ThreeSuffice(context) ==
    LET found == FlushDrawScan(context.cardsBySuit, 1, <<>>, <<>>)
    IN  IF Len(found) >= 3
        THEN LET bestFlush == Take(found, 5)
             IN  [type |-> "flush-draw",
                  suit |-> bestFlush[1].suit,
                  remainingCards |-> 5 - Len(bestFlush),
                  kickerValues |-> getCardValuesFromCardArray(bestFlush),
                  cardIds |-> getCardIdsFromCardArray(bestFlush)]
        ELSE Null

EvalFlushDraw(context) ==
    LET minFlushLength == Max(3, Len(context.cards) - 2)
        found == FlushDrawScan(context.cardsBySuit, 1, <<>>, <<>>)
    IN  IF Len(found) >= minFlushLength
        THEN LET bestFlush == Take(found, 5)
             IN  [type |-> "flush-draw",
                  suit |-> bestFlush[1].suit,
                  remainingCards |-> 5 - Len(bestFlush),
                  kickerValues |-> getCardValuesFromCardArray(bestFlush),
                  cardIds |-> getCardIdsFromCardArray(bestFlush)]
        ELSE Null

\* the inner loop over k of evaluators['straight-draw'].evaluate; yields neededValues
RECURSIVE NeededValues(_, _, _, _, _)
NeededValues(handValueSet, straightHead, k, neededValues, limit) ==
    IF k > 4 THEN neededValues
    ELSE IF (straightHead - k) \notin handValueSet
    THEN LET pushed == IF straightHead - k = ACE_LOW
                       THEN <<ACE>> \o neededValues
                       ELSE Append(neededValues, straightHead - k)
         IN  IF Len(pushed) > limit THEN pushed
             ELSE NeededValues(handValueSet, straightHead, k + 1, pushed, limit)
    ELSE NeededValues(handValueSet, straightHead, k + 1, neededValues, limit)

\* variant: a head is listed even when a higher head needs the same values
RECURSIVE StraightDrawScan_KeepAll(_, _, _, _)
StraightDrawScan_KeepAll(handValueSet, straightHead, limit, acc) ==
    IF straightHead < FIVE THEN acc
    ELSE
    LET neededValues == NeededValues(handValueSet, straightHead, 0, <<>>, limit)
        cardsToStraight == 5 - Len(neededValues)
    IN  IF Len(neededValues) > limit
        THEN StraightDrawScan_KeepAll(handValueSet, straightHead - 1, limit, acc)
        ELSE StraightDrawScan_KeepAll(handValueSet, straightHead - 1, limit,
               [usedCombinations |-> acc.usedCombinations \cup {neededValues},
                highest |-> IF acc.highest = 0 \/ cardsToStraight > acc.highest
                            THEN cardsToStraight ELSE acc.highest,
                combinations |-> IF acc.highest = 0 \/ cardsToStraight > acc.highest
                                 THEN 1
                                 ELSE IF cardsToStraight = acc.highest
                                 THEN acc.combinations + 1
                                 ELSE acc.combinations,
                draws |-> Append(acc.draws, [cardsToStraight |-> cardsToStraight,
                                             highValue |-> straightHead,
                                             neededValues |-> neededValues])])

\* the outer loop over straightHead; acc holds usedCombinations,
\* highestCardsToStraight (0 while unset), its combinations and straightDraws
RECURSIVE StraightDrawScan(_, _, _, _)
StraightDrawScan(handValueSet, straightHead, limit, acc) ==
    IF straightHead < FIVE THEN acc
    ELSE
    LET neededValues == NeededValues(handValueSet, straightHead, 0, <<>>, limit)
        cardsToStraight == 5 - Len(neededValues)
    IN  IF Len(neededValues) > limit
        THEN StraightDrawScan(handValueSet, straightHead - 1, limit, acc)
        ELSE IF neededValues \in acc.usedCombinations
        THEN StraightDrawScan(handValueSet, straightHead - 1, limit, acc)
        ELSE StraightDrawScan(handValueSet, straightHead - 1, limit,
               [usedCombinations |-> acc.usedCombinations \cup {neededValues},
                highest |-> IF acc.highest = 0 \/ cardsToStraight > acc.highest
                            THEN cardsToStraight ELSE acc.highest,
                combinations |-> IF acc.highest = 0 \/ cardsToStraight > acc.highest
                                 THEN 1
                                 ELSE IF cardsToStraight = acc.highest
                                 THEN acc.combinations + 1
                                 ELSE acc.combinations,
                draws |-> Append(acc.draws, [cardsToStraight |-> cardsToStraight,
                                             highValue |-> straightHead,
                                             neededValues |-> neededValues])])

CompareDraws(a, b) ==
    IF a.cardsToStraight > b.cardsToStraight THEN -1
    ELSE IF a.cardsToStraight < b.cardsToStraight THEN 1
    ELSE IF a.highValue > b.highValue THEN -1
    ELSE IF a.highValue < b.highValue THEN 1
    ELSE 0

EvalStraightDraw(context) ==
    LET groups == context.cardGroupsBySize
        values == {groups[k][1].value : k \in 1..Len(groups)}
        handValueSet == IF ACE \in values THEN values \cup {ACE_LOW} ELSE values
        minCardsToStraight == Max(3, Len(context.cards) - 2)
        acc == StraightDrawScan(handValueSet, ACE, 5 - minCardsToStraight,
                 [usedCombinations |-> {}, highest |-> 0, combinations |-> 0, draws |-> <<>>])
    IN  IF acc.highest # 0
        THEN [type |-> "straight-draw",
              highestCardsToStraight |-> acc.highest,
              highestCardsToStraightCombinations |-> acc.combinations,
              draws |-> ArraySort(acc.draws, CompareDraws)]
        ELSE Null

----------------------------------------------------------------------------
(* lib/hand-eval.js: the evaluator table and the entry points *)

\* variant: straight listed before flush
resultEvaluatorOrder_StraightFirst ==
    <<"straight-flush", "four-of-a-kind", "full-house", "straight", "flush",
      "three-of-a-kind", "two-pair", "pair", "high-cards">>

resultEvaluatorOrder ==
    <<"straight-flush", "four-of-a-kind", "full-house", "flush", "straight",
      "three-of-a-kind", "two-pair", "pair", "high-cards">>

DrawTypes == {"flush-draw", "straight-draw"}

ResultTypes == {resultEvaluatorOrder[k] : k \in 1..Len(resultEvaluatorOrder)}

EvaluatorTypes == ResultTypes \cup DrawTypes

\* resultEvaluatorOrderMap (0-based as in the source)
resultEvaluatorOrderMap(type) ==
    (CHOOSE k \in 1..Len(resultEvaluatorOrder) : resultEvaluatorOrder[k] = type) - 1

minHandSize(type) == IF type \in DrawTypes THEN 3 ELSE 5

\* variant: the draw evaluators take 7 cards like the result evaluators
maxHandSize_AlwaysSeven(type) == 7

maxHandSize(type) == IF type \in DrawTypes THEN 6 ELSE 7

isResult(type) == type \notin DrawTypes

evaluate(type, context) ==
    CASE type = "straight-flush" -> EvalStraightFlush(context)
      [] type = "four-of-a-kind" -> EvalFourOfAKind(context)
      [] type = "full-house" -> EvalFullHouse(context)
      [] type = "flush" -> EvalFlush(context)
      [] type = "straight" -> EvalStraight(context)
      [] type = "three-of-a-kind" -> EvalThreeOfAKind(context)
      [] type = "two-pair" -> EvalTwoPair(context)
      [] type = "pair" -> EvalPair(context)
      [] type = "high-cards" -> EvalHighCards(context)
      [] type = "flush-draw" -> EvalFlushDraw(context)
      [] type = "straight-draw" -> EvalStraightDraw(context)

getEvaluationByType(h, evaluatorType) ==
    LET evalContext == getEvalContext(h)
    IN  IF evalContext.threw THEN evalContext
        ELSE IF evaluatorType \notin EvaluatorTypes THEN Throw(INVALID_ARGUMENT)
        ELSE IF Len(h) < minHandSize(evaluatorType) \/ Len(h) > maxHandSize(evaluatorType)
        THEN Throw(INVALID_ARGUMENT)
        ELSE Return(evaluate(evaluatorType, evalContext.val))

\* the loop of getHandResult over resultEvaluatorOrder
RECURSIVE FirstResult(_, _)
FirstResult(context, k) ==
    IF k > Len(resultEvaluatorOrder) THEN Null
    ELSE LET result == evaluate(resultEvaluatorOrder[k], context)
         IN  IF result # Null THEN result ELSE FirstResult(context, k + 1)

getHandResult(h) ==
    LET evalContext == getEvalContext(h)
    IN  IF evalContext.threw THEN evalContext
        ELSE Return(FirstResult(evalContext.val, 1))

\* variant: two-pair results are compared by their pair values alone
compareResults_PairValuesOnly(type, a, b) ==
    CASE type \in {"straight-flush", "straight"} ->
           Return(IF a.highValue > b.highValue THEN -1
                  ELSE IF a.highValue < b.highValue THEN 1 ELSE 0)
      [] type \in {"four-of-a-kind", "three-of-a-kind", "pair"} ->
           IF a.value > b.value THEN Return(-1)
           ELSE IF a.value < b.value THEN Return(1)
           ELSE compareValueArrays(a.kickerValues, b.kickerValues)
      [] type = "full-house" ->
           Return(IF a.threeValue > b.threeValue THEN -1
                  ELSE IF a.threeValue < b.threeValue THEN 1
                  ELSE IF a.twoValue > b.twoValue THEN -1
                  ELSE IF a.twoValue < b.twoValue THEN 1 ELSE 0)
      [] type \in {"flush", "high-cards"} ->
           compareValueArrays(a.kickerValues, b.kickerValues)
      [] type = "two-pair" -> compareValueArrays(a.values, b.values)

\* evaluators[type].compareResults
compareResults(type, a, b) ==
    CASE type \in {"straight-flush", "straight"} ->
           Return(IF a.highValue > b.highValue THEN -1
                  ELSE IF a.highValue < b.highValue THEN 1 ELSE 0)
      [] type \in {"four-of-a-kind", "three-of-a-kind", "pair"} ->
           IF a.value > b.value THEN Return(-1)
           ELSE IF a.value < b.value THEN Return(1)
           ELSE compareValueArrays(a.kickerValues, b.kickerValues)
      [] type = "full-house" ->
           Return(IF a.threeValue > b.threeValue THEN -1
                  ELSE IF a.threeValue < b.threeValue THEN 1
                  ELSE IF a.twoValue > b.twoValue THEN -1
                  ELSE IF a.twoValue < b.twoValue THEN 1 ELSE 0)
      [] type \in {"flush", "high-cards"} ->
           compareValueArrays(a.kickerValues, b.kickerValues)
      [] type = "two-pair" ->
           LET valuesArrayResult == compareValueArrays(a.values, b.values)
           IN  IF valuesArrayResult.threw THEN valuesArrayResult
               ELSE IF valuesArrayResult.val # 0 THEN valuesArrayResult
               ELSE compareValueArrays(a.kickerValues, b.kickerValues)

\* variant: only the type of the first result is looked up
compareHandResults_FirstTagOnly(a, b) ==
    IF a.type \notin ResultTypes THEN Throw(INVALID_ARGUMENT)
    ELSE IF b.type \notin ResultTypes THEN Return(-1)
    ELSE LET aIndex == resultEvaluatorOrderMap(a.type)
             bIndex == resultEvaluatorOrderMap(b.type)
         IN  IF aIndex < bIndex THEN Return(-1)
             ELSE IF aIndex > bIndex THEN Return(1)
             ELSE compareResults(a.type, a, b)

compareHandResults(a, b) ==
    IF a.type \notin ResultTypes \/ b.type \notin ResultTypes
    THEN Throw(INVALID_ARGUMENT)
    ELSE LET aIndex == resultEvaluatorOrderMap(a.type)
             bIndex == resultEvaluatorOrderMap(b.type)
         IN  IF aIndex < bIndex THEN Return(-1)
             ELSE IF aIndex > bIndex THEN Return(1)
             ELSE compareResults(a.type, a, b)

\* variant: a result found later replaces the result held so far
pushEvaluation_LastResult(full, evaluatorType, evaluation) ==
    LET pushed == [full EXCEPT !.evaluations = Append(@, evaluation)]
    IN  IF ~isResult(evaluatorType) THEN pushed
        ELSE [pushed EXCEPT !.result = evaluation]

\* the body of the loop of processEvaluators once an evaluator has succeeded:
\* the evaluation is pushed and, when it is a result, kept if it beats the
\* result held so far (threw is set when compareHandResults threw)
pushEvaluation(full, evaluatorType, evaluation) ==
    LET pushed == [full EXCEPT !.evaluations = Append(@, evaluation)]
    IN  IF ~isResult(evaluatorType) THEN pushed
        ELSE IF pushed.result = Null THEN [pushed EXCEPT !.result = evaluation]
        ELSE LET comp == compareHandResults(evaluation, pushed.result)
             IN  IF comp.threw THEN [pushed EXCEPT !.threw = TRUE, !.code = comp.code]
                 ELSE IF comp.val < 0 THEN [pushed EXCEPT !.result = evaluation]
                 ELSE pushed

\* variant: the loop goes on after the first evaluator that succeeded
RECURSIVE processEvaluators_NoReturn(_, _, _, _)
processEvaluators_NoReturn(evaluatorTypes, k, context, full) ==
    IF k > Len(evaluatorTypes) THEN full
    ELSE IF \/ Len(context.hand) < minHandSize(evaluatorTypes[k])
            \/ Len(context.hand) > maxHandSize(evaluatorTypes[k])
    THEN processEvaluators_NoReturn(evaluatorTypes, k + 1, context, full)
    ELSE LET evaluation == evaluate(evaluatorTypes[k], context)
         IN  IF evaluation = Null
             THEN processEvaluators_NoReturn(evaluatorTypes, k + 1, context, full)
             ELSE processEvaluators_NoReturn(evaluatorTypes, k + 1, context,
                                             pushEvaluation(full, evaluatorTypes[k], evaluation))

\* processEvaluators inside getFullEvaluation; full is the ret object under
\* construction
RECURSIVE processEvaluators(_, _, _, _)
processEvaluators(evaluatorTypes, k, context, full) ==
    IF k > Len(evaluatorTypes) THEN full
    ELSE IF \/ Len(context.hand) < minHandSize(evaluatorTypes[k])
            \/ Len(context.hand) > maxHandSize(evaluatorTypes[k])
    THEN processEvaluators(evaluatorTypes, k + 1, context, full)
    ELSE LET evaluation == evaluate(evaluatorTypes[k], context)
         IN  IF evaluation = Null
             THEN processEvaluators(evaluatorTypes, k + 1, context, full)
             ELSE pushEvaluation(full, evaluatorTypes[k], evaluation)

\* one more processEvaluators call of getFullEvaluation; an exception thrown
\* by an earlier call has left the function already
thenProcessEvaluators(full, evaluatorTypes, context) ==
    IF full.threw THEN full ELSE processEvaluators(evaluatorTypes, 1, context, full)

\* variant: the weaker families are evaluated whatever was found before
weakerFamilies_Always(context, ret1) ==
    thenProcessEvaluators(
        thenProcessEvaluators(
            processEvaluators(<<"three-of-a-kind", "two-pair", "pair", "high-cards">>,
                              1, context, ret1),
            <<"flush", "flush-draw">>, context),
        <<"straight", "straight-draw">>, context)

\* the families evaluated only when no straight-flush, four-of-a-kind or
\* full-house was found (the second "if (!ret.result)" block)
weakerFamilies(context, ret1) ==
    IF ret1.result = Null
    THEN thenProcessEvaluators(
             thenProcessEvaluators(
                 processEvaluators(<<"three-of-a-kind", "two-pair", "pair", "high-cards">>,
                                   1, context, ret1),
                 <<"flush", "flush-draw">>, context),
             <<"straight", "straight-draw">>, context)
    ELSE ret1

\* the end of getFullEvaluation: the exception of a comparison, the internal
\* error when no result was found, or ret
fullEvaluationOutcome(full) ==
    IF full.threw THEN Throw(full.code)
    ELSE IF full.result = Null THEN Throw(INTERNAL_ERROR)
    ELSE Return([result |-> full.result, evaluations |-> full.evaluations])

getFullEvaluation(h) ==
    LET evalContext == getEvalContext(h)
        ret == [result |-> Null, evaluations |-> <<>>, threw |-> FALSE, code |-> "none"]
    IN  IF evalContext.threw THEN evalContext
        ELSE IF Len(h) < 5 \/ Len(h) > 7 THEN Throw(INVALID_ARGUMENT)
        ELSE fullEvaluationOutcome(
                 weakerFamilies(evalContext.val,
                     processEvaluators(<<"straight-flush", "four-of-a-kind", "full-house">>, 1,
                                       evalContext.val, ret)))

----------------------------------------------------------------------------
(* The hands handed to the evaluator *)

\* the cards of the deck the model deals from, as <<value, suit>>: the low
\* cards and the Ace of suit 1, then low cards of the other suits and a
\* second Ace
DealtCards ==
    << <<2, 1>>, <<3, 1>>, <<4, 1>>, <<5, 1>>, <<6, 1>>, <<ACE, 1>>,
       <<2, 2>>, <<3, 2>>, <<4, 2>>,
       <<2, 3>>, <<3, 3>>,
       <<2, 4>>, <<ACE, 2>>,
       <<3, 4>>, <<5, 2>>, <<4, 3>>, <<4, 4>>, <<7, 1>> >>

DeckSeq ==
    [k \in 1..DeckSize |-> getCardIdFromComponents(DealtCards[k][1], DealtCards[k][2]).val]

Deck == {DeckSeq[k] : k \in 1..DeckSize}

RECURSIVE SetToSeq(_)
SetToSeq(S) ==
    IF S = {} THEN <<>>
    ELSE LET m == CHOOSE x \in S : \A y \in S : x <= y
         IN  <<m>> \o SetToSeq(S \ {m})

SmallDeck == {DeckSeq[k] : k \in 1..SmallDeckSize}

\* hands of 5 to 7 distinct cards of the deck
ValidHands == {SetToSeq(S) : S \in {T \in SUBSET Deck : Cardinality(T) \in 5..7}}

\* hands of fewer than 5 cards
ShortHands == {SetToSeq(S) : S \in {T \in SUBSET SmallDeck : Cardinality(T) < 5}}

\* hands of 8 or 9 cards
LongHands ==
    {SetToSeq(S) : S \in {T \in SUBSET {DeckSeq[k] : k \in 1..(SmallDeckSize + 2)} :
                            Cardinality(T) > 7}}

\* b with a copy of its a-th card inserted at position p
InsertCopy(b, a, p) ==
    [k \in 1..(Len(b) + 1) |-> IF k < p THEN b[k] ELSE IF k = p THEN b[a] ELSE b[k - 1]]

\* hands of 5 to 7 cards in which one card occurs twice, at any two positions
DupHands ==
    UNION {{InsertCopy(SetToSeq(S), a, p) : a \in 1..Cardinality(S), p \in 1..(Cardinality(S) + 1)} :
             S \in {T \in SUBSET SmallDeck : Cardinality(T) \in 4..6}}

Hands == ValidHands \cup ShortHands \cup LongHands \cup DupHands

NoReturn == [threw |-> FALSE, val |-> Null]

\* the hands of the comparison table HR of the test suite
ReferenceHands ==
    {<<39, 38, 37, 36, 35>>,   \* royal-flush: Ah Kh Qh Jh Th
     <<34, 33, 32, 31, 30>>,   \* straight-flush-1: 9h 8h 7h 6h 5h
     <<47, 46, 45, 44, 43>>,   \* straight-flush-2: 9s 8s 7s 6s 5s
     <<49, 36, 23, 10, 39>>,   \* 4oak-j-1: Js Jh Jd Jc Ah
     <<49, 36, 23, 10, 13>>,   \* 4oak-j-2: Js Jh Jd Jc Ac
     <<49, 36, 23, 10, 6>>,    \* 4oak-j-3: Js Jh Jd Jc 7c
     <<41, 28, 15, 2, 26>>,    \* 4oak-3: 3s 3h 3d 3c Ad
     <<39, 52, 26, 12, 25>>,   \* fh-1: Ah As Ad Kc Kd
     <<39, 52, 13, 12, 25>>,   \* fh-2: Ah As Ac Kc Kd
     <<39, 52, 26, 10, 23>>,   \* fh-3: Ah As Ad Jc Jd
     <<34, 47, 21, 13, 26>>,   \* fh-4: 9h 9s 9d Ac Ad
     <<50, 48, 46, 45, 44>>,   \* flush-1: Qs Ts 8s 7s 6s
     <<24, 22, 20, 19, 18>>,   \* flush-2: Qd Td 8d 7d 6d
     <<49, 48, 47, 46, 44>>,   \* flush-3: Js Ts 9s 8s 6s
     <<50, 44, 42, 41, 40>>,   \* flush-4: Qs 6s 4s 3s 2s
     <<50, 49, 22, 47, 7>>,    \* straight-1: Qs Js Td 9s 8c
     <<37, 36, 22, 47, 7>>,    \* straight-2: Qh Jh Td 9s 8c
     <<52, 51, 24, 49, 9>>,    \* straight-3: As Ks Qd Js Tc
     <<43, 42, 15, 40, 13>>,   \* straight-4: 5s 4s 3d 2s Ac
     <<47, 34, 21, 52, 49>>,   \* 3oak-1: 9s 9h 9d As Js
     <<47, 34, 21, 52, 51>>,   \* 3oak-2: 9s 9h 9d As Ks
     <<45, 32, 19, 52, 50>>,   \* 3oak-3: 7s 7h 7d As Qs
     <<51, 25, 49, 23, 29>>,   \* 2pair-1: Ks Kd Js Jd 4h
     <<51, 25, 49, 23, 33>>,   \* 2pair-2: Ks Kd Js Jd 8h
     <<51, 25, 43, 17, 31>>,   \* 2pair-3: Ks Kd 5s 5d 6h
     <<52, 26, 41, 15, 31>>,   \* 2pair-4: As Ad 3s 3d 6h
     <<50, 24, 45, 19, 31>>,   \* 2pair-5: Qs Qd 7s 7d 6h
     <<47, 34, 26, 51, 49>>,   \* pair-1: 9s 9h Ad Ks Js
     <<47, 34, 26, 51, 50>>,   \* pair-2: 9s 9h Ad Ks Qs
     <<46, 33, 52, 51, 49>>,   \* pair-3: 8s 8h As Ks Js
     <<51, 36, 48, 47, 44>>,   \* hc-1: Ks Jh Ts 9s 6s
     <<51, 37, 48, 47, 43>>}   \* hc-2: Ks Qh Ts 9s 5s

ReferenceResults == {getHandResult(h).val : h \in ReferenceHands}

CalledTypes == EvaluatorTypes \cup {"bad-evaluator"}

----------------------------------------------------------------------------
(* lib/random-utils.js and the decks of lib/card-utils.js *)

\* rng.random() returns one of 0/RngDenominator .. (RngDenominator-1)/RngDenominator
RngDenominator == 2

\* an RNG is the sequence of numerators it returns, over and over
RngStreams ==
    {<<a>> : a \in 0..(RngDenominator - 1)}
    \cup {<<a, b>> : a \in 0..(RngDenominator - 1), b \in 0..(RngDenominator - 1)}

\* the numerator of the k-th call of rng.random()
random(rng, k) == rng[((k - 1) % Len(rng)) + 1]

\* rng.randomInt(low, high) at the k-th call of the RNG
randomInt(rng, k, low, high) ==
    LET range == high - low + 1
    IN  ((random(rng, k) * range) \div RngDenominator) + low

\* slice(n)
Drop(s, n) == IF Len(s) <= n THEN <<>> ELSE SubSeq(s, n + 1, Len(s))

\* variant: the card drawn is copied to the index, the card there is lost
RECURSIVE shuffleFrom_Overwrite(_, _, _)
shuffleFrom_Overwrite(arr, from, rng) ==
    IF from >= Len(arr) THEN arr
    ELSE LET toSwap == randomInt(rng, from + 1, from, Len(arr) - 1)
             swapped == [arr EXCEPT ![from + 1] = arr[toSwap + 1]]
         IN  shuffleFrom_Overwrite(swapped, from + 1, rng)

\* the loop of shuffleArray from a 0-based index on; the step at index n is
\* the (n+1)-th call of the RNG
RECURSIVE shuffleFrom(_, _, _)
shuffleFrom(arr, from, rng) ==
    IF from >= Len(arr) THEN arr
    ELSE LET toSwap == randomInt(rng, from + 1, from, Len(arr) - 1)
             swapped == [arr EXCEPT ![from + 1] = arr[toSwap + 1], ![toSwap + 1] = arr[from + 1]]
         IN  shuffleFrom(swapped, from + 1, rng)

shuffleArray(arr, rng) == shuffleFrom(arr, 0, rng)

getUnshuffledDeck == [k \in 1..52 |-> k]

getShuffledDeck(rng) == shuffleArray(getUnshuffledDeck, rng)

\* the sections object as the array of its entries, in the order of for-in:
\* the integer keys ascending
sectionEntries(sections) ==
    LET keys == SetToSeq(DOMAIN sections)
    IN  [k \in 1..Len(keys) |-> [index |-> keys[k], cards |-> sections[keys[k]]]]

RECURSIVE Concat(_)
Concat(seqs) == IF seqs = <<>> THEN <<>> ELSE Head(seqs) \o Concat(Tail(seqs))

\* a card is met that cardsToStack holds already
stackedTwice(entries) ==
    LET all == Concat([k \in 1..Len(entries) |-> entries[k].cards])
    IN  \E p \in 1..Len(all), q \in 1..Len(all) : p < q /\ all[p] = all[q]

CompareSections(a, b) ==
    IF a.index < b.index THEN -1
    ELSE IF a.index > b.index THEN 1
    ELSE 0

\* variant: the section overwrites the cards at its place
spliceSection_Overwrite(deck, section) ==
    Take(deck, section.index) \o section.cards \o Drop(deck, section.index + Len(section.cards))

\* deck.slice(0, index).concat(cards).concat(deck.slice(index))
spliceSection(deck, section) ==
    Take(deck, section.index) \o section.cards \o Drop(deck, section.index)

RECURSIVE spliceSections(_, _, _)
spliceSections(deck, sectionsArray, k) ==
    IF k > Len(sectionsArray) THEN deck
    ELSE spliceSections(spliceSection(deck, sectionsArray[k]), sectionsArray, k + 1)

getPartiallyStackedDeck(sections, rng) ==
    LET entries == sectionEntries(sections)
    IN  IF stackedTwice(entries) THEN Throw(INVALID_ARGUMENT)
        ELSE LET sectionsArray == ArraySort(entries, CompareSections)
                 cardsToStack == UNION {{entries[k].cards[c] : c \in 1..Len(entries[k].cards)} :
                                          k \in 1..Len(entries)}
                 unstacked == SelectSeq(getUnshuffledDeck, LAMBDA id : id \notin cardsToStack)
             IN  Return(spliceSections(shuffleArray(unstacked, rng), sectionsArray, 1))

\* the cards stacked in the model: the lowest card, an Ace, the two cards next
\* to the border of two suits, and the highest card
StackCards == {1, 13, 26, 27, 52}

\* one to three distinct cards
StackLists ==
    {cards \in UNION {[1..n -> StackCards] : n \in 1..3} :
        \A p \in 1..Len(cards), q \in 1..Len(cards) : p # q => cards[p] # cards[q]}

\* the places of the sections: the head of the deck, behind a pocket, and the
\* last three places of the deck
StackOffsets == {0, 2, 49}

\* no section, one, or two
StackSections ==
    UNION {[offsets -> StackLists] :
             offsets \in {o \in SUBSET StackOffsets : Cardinality(o) <= 2}}

----------------------------------------------------------------------------
(* lib/poker-round.js: a round is the number of players and the deck *)

PokerRound(numPlayers, deck) == [numPlayers |-> numPlayers, deck |-> deck]

\* arr.slice(start, end) with 0 <= start <= end
slice(arr, start, end) ==
    IF start >= Len(arr) THEN <<>>
    ELSE SubSeq(arr, start + 1, IF end < Len(arr) THEN end ELSE Len(arr))

\* an argument left out is <<>>, a given one is <<value>>
Omitted == <<>>

Given(value) == <<value>>

\* getPocketCards(playerIndex): an index left out is player 0
getPocketCards(round, playerIndex) ==
    LET index == IF playerIndex = Omitted THEN 0 ELSE playerIndex[1]
    IN  IF index < 0 \/ index >= round.numPlayers THEN Throw(INVALID_ARGUMENT)
        ELSE Return(slice(round.deck, 2 * index, 2 * index + 2))

RoundParts == {"preflop", "flop", "turn", "river"}

\* variant: the community starts behind one card for each player
getCommunityCards_OneCardEach(round, roundPart) ==
    LET first == round.numPlayers
    IN  IF roundPart = "" \/ roundPart = "river" THEN Return(slice(round.deck, first, first + 5))
        ELSE IF roundPart = "turn" THEN Return(slice(round.deck, first, first + 4))
        ELSE IF roundPart = "flop" THEN Return(slice(round.deck, first, first + 3))
        ELSE IF roundPart = "preflop" THEN Return(<<>>)
        ELSE Throw(INVALID_ARGUMENT)

\* getCommunityCards(roundPart): "" stands for a roundPart left out or empty
getCommunityCards(round, roundPart) ==
    LET first == 2 * round.numPlayers
    IN  IF roundPart = "" \/ roundPart = "river" THEN Return(slice(round.deck, first, first + 5))
        ELSE IF roundPart = "turn" THEN Return(slice(round.deck, first, first + 4))
        ELSE IF roundPart = "flop" THEN Return(slice(round.deck, first, first + 3))
        ELSE IF roundPart = "preflop" THEN Return(<<>>)
        ELSE Throw(INVALID_ARGUMENT)

getPlayerAvailableCards(round, playerIndex, roundPart) ==
    LET pocketCards == getPocketCards(round, playerIndex)
        communityCards == getCommunityCards(round, roundPart)
    IN  IF pocketCards.threw THEN pocketCards
        ELSE IF communityCards.threw THEN communityCards
        ELSE Return(pocketCards.val \o communityCards.val)

getPlayerHandResult(round, playerIndex) ==
    LET cards == getPlayerAvailableCards(round, Given(playerIndex), "river")
    IN  IF cards.threw THEN cards ELSE getHandResult(cards.val)

NoWinners == [winners |-> <<>>, best |-> Null]

\* variant: a strictly stronger player joins the list
considerPlayer_KeepList(current, player, playerResult) ==
    IF current.best = Null THEN Return([winners |-> <<player>>, best |-> playerResult])
    ELSE LET comp == compareHandResults(playerResult, current.best)
         IN  IF comp.threw THEN comp
             ELSE IF comp.val < 0
                  THEN Return([winners |-> Append(current.winners, player), best |-> playerResult])
             ELSE IF comp.val > 0 THEN Return(current)
             ELSE Return([current EXCEPT !.winners = Append(@, player)])

\* the body of the loop of getWinningPlayers for one player
considerPlayer(current, player, playerResult) ==
    IF current.best = Null THEN Return([winners |-> <<player>>, best |-> playerResult])
    ELSE LET comp == compareHandResults(playerResult, current.best)
         IN  IF comp.threw THEN comp
             ELSE IF comp.val < 0 THEN Return([winners |-> <<player>>, best |-> playerResult])
             ELSE IF comp.val > 0 THEN Return(current)
             ELSE Return([current EXCEPT !.winners = Append(@, player)])

RECURSIVE winnersFrom(_, _, _)
winnersFrom(round, player, current) ==
    IF player >= round.numPlayers THEN Return(current.winners)
    ELSE LET cards == getPlayerAvailableCards(round, Given(player), "")
         IN  IF cards.threw THEN cards
             ELSE LET playerResult == getHandResult(cards.val)
                  IN  IF playerResult.threw THEN playerResult
                      ELSE LET next == considerPlayer(current, player, playerResult.val)
                           IN  IF next.threw THEN next
                               ELSE winnersFrom(round, player + 1, next.val)

getWinningPlayers(round) == winnersFrom(round, 0, NoWinners)

\* players of the rounds of the model
MaxPlayers == 3

CardId(value, suit) == getCardIdFromComponents(value, suit).val

\* the boards of the model: a straight on the board, and a board of five
\* unconnected cards
Boards ==
    { <<CardId(5, 1), CardId(6, 2), CardId(7, 3), CardId(8, 4), CardId(9, 1)>>,
      <<CardId(13, 4), CardId(12, 3), CardId(7, 2), CardId(4, 1), CardId(9, 4)>> }

\* the cards the pockets are dealt from
PocketCards ==
    { CardId(10, 1), CardId(10, 2), CardId(2, 1), CardId(2, 2),
      CardId(3, 3), CardId(ACE, 3) }

\* the pockets of a table: two distinct cards for each player
PocketDeals(numPlayers) ==
    {cards \in [1..(2 * numPlayers) -> PocketCards] :
        \A p \in 1..(2 * numPlayers), q \in 1..(2 * numPlayers) : p < q => cards[p] # cards[q]}

\* a deck with the given cards on top and the other cards below, ascending
DeckWithTop(top) ==
    top \o SelectSeq(getUnshuffledDeck, LAMBDA id : \A k \in 1..Len(top) : top[k] # id)

\* the rounds of the model: the pockets, then the board, then the other cards
Rounds ==
    UNION {{PokerRound(numPlayers, DeckWithTop(pockets \o board)) :
              pockets \in PocketDeals(numPlayers), board \in Boards} :
           numPlayers \in 1..MaxPlayers}

----------------------------------------------------------------------------
(* lib/hand-match.js: matches of a round *)

\* the evaluation object of a pocket and a community, given the full
\* evaluation of the hand made of both
evaluationObject(pocket, community, resultEval) ==
    IF resultEval.threw THEN resultEval
    ELSE Return([pocket |-> pocket, community |-> community, resultEval |-> resultEval.val])

\* getFullEvaluation(pocket, community), the evaluation object the queries are
\* run against: the pocket cards, the community cards and, as resultEval, the
\* full evaluation of the hand made of both
getFullEvaluationOf(pocket, community) ==
    evaluationObject(pocket, community, getFullEvaluation(pocket \o community))

\* the queries of the model:
\*   {'resultEval.evaluations': {$elemMatch: {evalType: 'flush-draw', remainingCards: 1}}}
\*   {'resultEval.result.evalType': 'flush'}
\*   {'resultEval.result.evalType': 'three-of-a-kind'}
FlushDrawQuery == [path |-> "resultEval.evaluations", evalType |-> "flush-draw", remainingCards |-> 1]

FlushQuery == [path |-> "resultEval.result.evalType", evalType |-> "flush", remainingCards |-> 0]

ThreeOfAKindQuery ==
    [path |-> "resultEval.result.evalType", evalType |-> "three-of-a-kind", remainingCards |-> 0]

Queries == {FlushDrawQuery, FlushQuery, ThreeOfAKindQuery}

\* query.matches(fullEval)
QueryMatches(query, fullEval) ==
    IF query.path = "resultEval.evaluations"
    THEN \E k \in 1..Len(fullEval.resultEval.evaluations) :
            /\ fullEval.resultEval.evaluations[k].type = query.evalType
            /\ fullEval.resultEval.evaluations[k].remainingCards = query.remainingCards
    ELSE fullEval.resultEval.result.type = query.evalType

\* !match.query.matches(fullEval), or what getFullEvaluation threw
queryOutcome(match, fullEval) ==
    IF fullEval.threw THEN fullEval
    ELSE Return(QueryMatches(match.query, fullEval.val))

\* the evaluation of the cards of a match, or what getting them threw
cardsOutcome(match, pocket, community) ==
    IF pocket.threw THEN pocket
    ELSE IF community.threw THEN community
    ELSE queryOutcome(match, getFullEvaluationOf(pocket.val, community.val))

\* variant: every match is run against the protagonist
matchOutcome_Protagonist(pokerRound, match) ==
    cardsOutcome(match, getPocketCards(pokerRound, Omitted),
                 getCommunityCards(pokerRound, match.roundPart))

\* the body of the loop of processPokerRoundMatches for one match
matchOutcome(pokerRound, match) ==
    cardsOutcome(match, getPocketCards(pokerRound, match.playerIndex),
                 getCommunityCards(pokerRound, match.roundPart))

RECURSIVE matchesFrom(_, _, _)

\* the loop after the k-th match: false at the first match that fails
afterMatch(pokerRound, matches, k, outcome) ==
    IF outcome.threw THEN outcome
    ELSE IF ~outcome.val THEN Return(FALSE)
    ELSE matchesFrom(pokerRound, matches, k + 1)

matchesFrom(pokerRound, matches, k) ==
    IF k > Len(matches) THEN Return(TRUE)
    ELSE afterMatch(pokerRound, matches, k, matchOutcome(pokerRound, matches[k]))

\* a playerIndex that is no number becomes 0
normalizePokerRoundMatches(matches) ==
    [k \in 1..Len(matches) |->
        [matches[k] EXCEPT !.playerIndex = IF @ = Omitted THEN Given(0) ELSE @]]

processPokerRoundMatches(pokerRound, matches, skipNormalize) ==
    matchesFrom(pokerRound,
                IF skipNormalize THEN matches ELSE normalizePokerRoundMatches(matches), 1)

\* matches of one call
MaxMatches == 2

Matches ==
    {[playerIndex |-> playerIndex, roundPart |-> roundPart, query |-> query] :
        playerIndex \in {Omitted, Given(0), Given(1)},
        roundPart \in {"flop", "river"},
        query \in Queries}

MatchLists == UNION {[1..n -> Matches] : n \in 0..MaxMatches}

\* the pockets of the model: two low spades, and two Kings
SpadePocket == <<CardId(2, 4), CardId(3, 4)>>

KingPocket == <<CardId(13, 2), CardId(13, 1)>>

\* the boards of the model; on the first the spade pocket has a flush draw at
\* the flop and a flush at the river, on the second the draw stays a draw, on
\* the third the spade pocket has a straight flush at the flop
MatchBoards ==
    { <<CardId(7, 4), CardId(8, 4), CardId(13, 3), CardId(9, 2), CardId(ACE, 4)>>,
      <<CardId(7, 4), CardId(8, 4), CardId(13, 3), CardId(9, 2), CardId(2, 2)>>,
      <<CardId(4, 4), CardId(5, 4), CardId(6, 4), CardId(13, 3), CardId(2, 2)>> }

MatchRounds ==
    {PokerRound(1, DeckWithTop(SpadePocket \o board)) : board \in MatchBoards}
    \cup {PokerRound(2, DeckWithTop(SpadePocket \o KingPocket \o board)) : board \in MatchBoards}
    \cup {PokerRound(2, DeckWithTop(KingPocket \o SpadePocket \o board)) : board \in MatchBoards}

----------------------------------------------------------------------------
(* lib/poker-table.js *)

\* a table seats 1 to 10 players
MaxNumPlayers == 10

PokerTable(numPlayers, rng) ==
    IF numPlayers < 1 \/ numPlayers > MaxNumPlayers THEN Throw(INVALID_ARGUMENT)
    ELSE Return([numPlayers |-> numPlayers, rng |-> rng])

\* playRound(deck): a deck left out is a shuffled deck
playRound(table, deck) ==
    PokerRound(table.numPlayers,
               IF deck = Omitted THEN getShuffledDeck(table.rng) ELSE deck[1])

\* a card of a configuration: a number, or an object whose cardId is read
CardNumber(cardId) == [type |-> "number", cardId |-> cardId]

CardObject(cardId) == [type |-> "object", cardId |-> cardId]

\* config[indexStr].map(...): the identifiers of the cards, or the throw of the
\* first card that gives none (an object with no cardId)
cardIdsOf(cardRefs) ==
    IF \E k \in 1..Len(cardRefs) : cardRefs[k].type = "object" /\ cardRefs[k].cardId = 0
    THEN Throw(INVALID_ARGUMENT)
    ELSE Return([k \in 1..Len(cardRefs) |-> cardRefs[k].cardId])

\* the offset of an entry of the configuration; the doubled index of a player
\* is compared with the number of players
stackIndexOf(numPlayers, entry) ==
    IF entry.community THEN Return(2 * numPlayers)
    ELSE LET stackIndex == 2 * entry.index
         IN  IF stackIndex >= numPlayers THEN Throw(INVALID_ARGUMENT)
             ELSE Return(stackIndex)

\* the loop over the keys of the configuration, the k-th entry on
RECURSIVE buildRawStacks(_, _, _, _)
buildRawStacks(numPlayers, config, k, rawStacks) ==
    IF k > Len(config) THEN Return(rawStacks)
    ELSE LET stackIndex == stackIndexOf(numPlayers, config[k])
             cardIds == cardIdsOf(config[k].cards)
         IN  IF stackIndex.threw THEN stackIndex
             ELSE IF cardIds.threw THEN cardIds
             ELSE buildRawStacks(numPlayers, config, k + 1,
                     [o \in (DOMAIN rawStacks) \cup {stackIndex.val} |->
                         IF o = stackIndex.val THEN cardIds.val ELSE rawStacks[o]])

\* the factory is the rawStacks it closes over; the keys of the configuration
\* come in the order of for-in: the players ascending, then 'community'
createStackedDeckFunc(table, config) ==
    buildRawStacks(table.numPlayers, config, 1, <<>>)

\* a call of the factory
stackedDeckFunc(rawStacks, rng) == getPartiallyStackedDeck(rawStacks, rng)

\* the RNG after a number of calls of rng.random()
advance(rng, calls) == [k \in 1..Len(rng) |-> random(rng, calls + k)]

\* the calls of rng.random() of one call of the factory: one for each card
\* that is not stacked
shuffleCalls(rawStacks) ==
    52 - Cardinality(UNION {{rawStacks[o][c] : c \in 1..Len(rawStacks[o])} : o \in DOMAIN rawStacks})

PlayerEntry(index, cards) == [community |-> FALSE, index |-> index, cards |-> cards]

CommunityEntry(cards) == [community |-> TRUE, index |-> 0, cards |-> cards]

\* the cards of the configurations: two pocket cards and three community
\* cards, as numbers, as objects, with a card stacked twice, and with an
\* object that has no cardId
ConfigCards ==
    { <<<<CardNumber(1), CardNumber(2)>>, <<CardNumber(7), CardNumber(8), CardNumber(25)>>>>,
      <<<<CardObject(52), CardNumber(13)>>, <<CardObject(26), CardObject(27), CardNumber(1)>>>>,
      <<<<CardNumber(1), CardNumber(2)>>, <<CardNumber(2), CardNumber(8), CardNumber(25)>>>>,
      <<<<CardNumber(1), CardObject(0)>>, <<CardNumber(7), CardNumber(8), CardNumber(25)>>>> }

\* {index: [a, b], community: [c, d, e]}
Configs(numPlayers) ==
    {<<PlayerEntry(index, cards[1]), CommunityEntry(cards[2])>> :
        index \in 0..numPlayers, cards \in ConfigCards}

\* decks built by one factory
MaxDecks == 2

----------------------------------------------------------------------------
(* lib/simulator.js *)

NORMAL_ROUNDS_PER_CYCLE == 100
HIGH_ROUNDS_PER_CYCLE == 500

\* largest trial target and largest excess of the attempt cap over a batch
MaxTrials == 3

NoSimulator ==
    [constructed |-> FALSE, trials |-> 0, trialAttempts |-> 0, roundsPerCycle |-> 0,
     running |-> FALSE, hasRun |-> FALSE]

\* JavaScript values handed to the constructor: a number is kept as twice its
\* value, so that halves can be told from integers; NaN is a number as well
Number(n) == [type |-> "number", nan |-> FALSE, twice |-> 2 * n]

Halves(k) == [type |-> "number", nan |-> FALSE, twice |-> k]

NaN == [type |-> "number", nan |-> TRUE, twice |-> 0]

Undefined == [type |-> "undefined", nan |-> FALSE, twice |-> 0]

\* a non-empty string
String == [type |-> "string", nan |-> FALSE, twice |-> 0]

\* v < n for a number v: every comparison with NaN is false
lessThan(v, n) == ~v.nan /\ v.twice < 2 * n

\* the first operand of || is kept when it is truthy
truthy(v) ==
    CASE v.type = "number" -> ~v.nan /\ v.twice # 0
      [] v.type = "string" -> TRUE
      [] OTHER -> FALSE

\* the constructor of Simulator on the values it is handed
constructor(trials, trialAttempts, cpuHog) ==
    IF trials.type # "number" \/ lessThan(trials, 1)
    THEN Throw(INVALID_ARGUMENT)
    ELSE Return([trials |-> trials,
                 trialAttempts |-> IF truthy(trialAttempts) THEN trialAttempts ELSE trials,
                 roundsPerCycle |-> IF cpuHog THEN HIGH_ROUNDS_PER_CYCLE
                                    ELSE NORMAL_ROUNDS_PER_CYCLE,
                 running |-> FALSE,
                 hasRun |-> FALSE])

\* the constructor on integers; trialAttempts = 0 stands for an omitted argument
NewSimulator(trials, trialAttempts, cpuHog) ==
    LET made == constructor(Number(trials),
                            IF trialAttempts # 0 THEN Number(trialAttempts) ELSE Undefined,
                            cpuHog)
    IN  IF made.threw THEN made
        ELSE Return([constructed |-> TRUE,
                     trials |-> made.val.trials.twice \div 2,
                     trialAttempts |-> made.val.trialAttempts.twice \div 2,
                     roundsPerCycle |-> made.val.roundsPerCycle,
                     running |-> made.val.running,
                     hasRun |-> made.val.hasRun])

\* the variables of the closure of run(); relevant is the last answer of
\* _isPokerRoundRelevant and trial the roundContext.trial handed to
\* _processPokerRound last
NoClosure ==
    [trialCount |-> 0, trialAttemptCount |-> 0, finished |-> FALSE, thrown |-> "none",
     relevant |-> FALSE, trial |-> 0]

NoPromise ==
    [state |-> "none", totalTrials |-> 0, totalTrialAttempts |-> 0, code |-> "none",
     result |-> Null]

\* what a simulator without matches keeps in the fields of the
\* HandImprovementSimulator
NoMatches == [relevanceMatch |-> <<>>, acceptanceMatch |-> <<>>, totalTested |-> 0, totalAccepted |-> 0]

\* the hooks of a simulator, with the fields of the subclass
Hooks(kind, relevance, faulty) ==
    [kind |-> kind, relevance |-> relevance, faulty |-> faulty,
     relevanceMatch |-> NoMatches.relevanceMatch, acceptanceMatch |-> NoMatches.acceptanceMatch,
     totalTested |-> NoMatches.totalTested, totalAccepted |-> NoMatches.totalAccepted]

NoPolicy == Hooks("none", "none", FALSE)

NoProgress == [calls |-> 0, trialCount |-> 0, trialAttemptCount |-> 0]

\* the extension points: the base class (processing step unimplemented) or a
\* subclass whose relevance predicate always accepts, always rejects or
\* answers either way, and whose hooks may throw when faulty
Policies ==
    {Hooks("base", "accept", FALSE)}
    \cup {Hooks("subclass", r, f) : r \in {"accept", "reject", "any"}, f \in BOOLEAN}

\* _isPokerRoundRelevant
RelevanceAnswers(p) ==
    CASE p.relevance = "accept" -> {TRUE}
      [] p.relevance = "reject" -> {FALSE}
      [] OTHER -> BOOLEAN

\* what _getDeck / playRound / _isPokerRoundRelevant may throw
DealFaults(p) == IF p.faulty THEN {"none", INVALID_ARGUMENT} ELSE {"none"}

\* what _processPokerRound may throw
ProcessFaults(p) ==
    IF p.kind = "base" THEN {INTERNAL_ERROR}
    ELSE IF p.faulty THEN {"none", INVALID_ARGUMENT} ELSE {"none"}

\* what _progress may throw
ProgressFaults(p) == IF p.faulty THEN {"none", INVALID_ARGUMENT} ELSE {"none"}

\* what _getResult may throw
ResultFaults(p) == IF p.faulty THEN {"none", INVALID_ARGUMENT} ELSE {"none"}

\* the round of a simulator whose hooks do not look at it
NoRound == PokerRound(1, <<>>)

\* the decks a HandImprovementSimulator is dealt in the model, for its table
\* of one player
ImprovementRounds == {round \in MatchRounds : round.numPlayers = 1}

\* playRound(_getDeck())
DealtRounds(p) == IF p.kind = "improvement" THEN ImprovementRounds ELSE {NoRound}

\* _getDeck, playRound and _isPokerRoundRelevant: the answer, or what was thrown
isPokerRoundRelevant(p, pokerRound, dealFault, relevant) ==
    IF p.kind = "improvement"
    THEN processPokerRoundMatches(pokerRound, p.relevanceMatch, TRUE)
    ELSE IF dealFault # "none" THEN Throw(dealFault)
    ELSE Return(relevant)

\* the fields of the simulator after the acceptance matches were run
countAccepted(tested, accepted) ==
    IF accepted.threw
    THEN [threw |-> TRUE, code |-> accepted.code, policy |-> tested]
    ELSE [threw |-> FALSE, code |-> "none",
          policy |-> IF accepted.val THEN [tested EXCEPT !.totalAccepted = @ + 1] ELSE tested]

\* variant: totalTested is left alone
processPokerRound_NotTested(p, pokerRound, processFault) ==
    IF p.kind = "improvement"
    THEN countAccepted(p, processPokerRoundMatches(pokerRound, p.acceptanceMatch, TRUE))
    ELSE [threw |-> processFault # "none", code |-> processFault, policy |-> p]

\* _processPokerRound: whether it threw, and the simulator's fields after it
processPokerRound(p, pokerRound, processFault) ==
    IF p.kind = "improvement"
    THEN countAccepted([p EXCEPT !.totalTested = @ + 1],
                       processPokerRoundMatches(pokerRound, p.acceptanceMatch, TRUE))
    ELSE [threw |-> processFault # "none", code |-> processFault, policy |-> p]

\* _getResult; improveProb is kept as a fraction
getResult(p) ==
    IF p.kind = "improvement"
    THEN [improveProb |-> IF p.totalTested # 0
                          THEN [num |-> p.totalAccepted, den |-> p.totalTested]
                          ELSE [num |-> 0, den |-> 1]]
    ELSE Null

\* what a successful run() hands back to its caller
PromiseHandle == [type |-> "promise"]

\* variant: only a finished run is refused
runGuard_HasRunOnly(s) ==
    IF s.hasRun THEN Throw(INTERNAL_ERROR)
    ELSE Return(Null)

\* the two guards at the head of run()
runGuard(s) ==
    IF s.running THEN Throw(INTERNAL_ERROR)
    ELSE IF s.hasRun THEN Throw(INTERNAL_ERROR)
    ELSE Return(Null)

\* variant: the attempt cap stops the loop one deal late
stopCondition_CapExceeded(s, trialCount, trialAttemptCount) ==
    \/ trialCount >= s.trials
    \/ (s.trialAttempts # 0 /\ trialAttemptCount > s.trialAttempts)

\* the stop condition inside the inner loop
stopCondition(s, trialCount, trialAttemptCount) ==
    \/ trialCount >= s.trials
    \/ (s.trialAttempts # 0 /\ trialAttemptCount >= s.trialAttempts)

\* variant: every round dealt is counted as a trial
countTrial_Always(trialCount, relevant) == trialCount + 1

\* trialCount++ inside the test of relevance
countTrial(trialCount, relevant) == IF relevant THEN trialCount + 1 ELSE trialCount

\* variant: the batch goes on for one more round
innerLoopTest_OneMore(s, n) == n <= s.roundsPerCycle

\* the test of the inner for loop
innerLoopTest(s, n) == n < s.roundsPerCycle

\* run(): refused by a guard, or the closure is set up and the loop begins
Run ==
    /\ sim.constructed
    /\ lastRun' = IF runGuard(sim).threw THEN runGuard(sim) ELSE Return(PromiseHandle)
    /\ IF runGuard(sim).threw
       THEN UNCHANGED <<sim, pc, loc, i, promise, progress>>
       ELSE /\ sim' = [sim EXCEPT !.running = TRUE]
            /\ loc' = NoClosure
            /\ i' = 0
            /\ promise' = [NoPromise EXCEPT !.state = "pending"]
            /\ pc' = "test"
            /\ UNCHANGED progress
    /\ UNCHANGED <<policy, evalVars>>

\* pasync.whilst evaluates its test
Test ==
    /\ pc = "test"
    /\ IF ~loc.finished THEN pc' = "loop" /\ i' = 0
                        ELSE pc' = "then" /\ UNCHANGED i
    /\ UNCHANGED <<sim, loc, promise, policy, lastRun, progress, evalVars>>

\* the rest of an iteration once the round was processed or passed over
AfterProcessing(relevant, processed) ==
    LET attempt == loc.trialAttemptCount + 1
        trial == countTrial(loc.trialCount, relevant)
        counted == [loc EXCEPT !.trialAttemptCount = attempt, !.trialCount = trial,
                               !.relevant = relevant,
                               !.trial = IF relevant THEN trial ELSE @]
    IN  /\ policy' = processed.policy
        /\ IF processed.threw
           THEN /\ loc' = [counted EXCEPT !.thrown = processed.code]
                /\ pc' = "catch"
                /\ UNCHANGED i
           ELSE IF stopCondition(sim, trial, attempt)
           THEN /\ loc' = [counted EXCEPT !.finished = TRUE]
                /\ pc' = "progress"
                /\ UNCHANGED i
           ELSE /\ loc' = counted
                /\ i' = i + 1
                /\ pc' = IF innerLoopTest(sim, i + 1) THEN "loop" ELSE "progress"

\* the rest of an iteration once the relevance of the round is known
AfterRelevance(answer, pokerRound, processFault) ==
    IF answer.threw
    THEN /\ loc' = [loc EXCEPT !.trialAttemptCount = @ + 1, !.thrown = answer.code]
         /\ pc' = "catch"
         /\ UNCHANGED <<i, policy>>
    ELSE IF answer.val
    THEN AfterProcessing(TRUE, processPokerRound(policy, pokerRound, processFault))
    ELSE AfterProcessing(FALSE, [threw |-> FALSE, code |-> "none", policy |-> policy])

\* one iteration of the inner for loop
Deal ==
    /\ pc = "loop"
    /\ \E pokerRound \in DealtRounds(policy), dealFault \in DealFaults(policy),
          relevant \in RelevanceAnswers(policy), processFault \in ProcessFaults(policy) :
          AfterRelevance(isPokerRoundRelevant(policy, pokerRound, dealFault, relevant),
                         pokerRound, processFault)
    /\ UNCHANGED <<sim, promise, lastRun, progress, evalVars>>

\* this._progress(...) after the inner loop
Progress ==
    /\ pc = "progress"
    /\ \E progressFault \in ProgressFaults(policy) :
          IF progressFault # "none"
          THEN /\ loc' = [loc EXCEPT !.thrown = progressFault]
               /\ pc' = "catch"
               /\ UNCHANGED progress
          ELSE /\ progress' = [calls |-> progress.calls + 1,
                               trialCount |-> loc.trialCount,
                               trialAttemptCount |-> loc.trialAttemptCount]
               /\ pc' = "yield"
               /\ UNCHANGED loc
    /\ UNCHANGED <<sim, i, promise, policy, lastRun, evalVars>>

\* pasync.setTimeout(0) fires
Yield ==
    /\ pc = "yield"
    /\ pc' = "test"
    /\ UNCHANGED <<sim, loc, i, promise, policy, lastRun, progress, evalVars>>

\* the .then handler; when _getResult throws the .catch handler is next
Then ==
    /\ pc = "then"
    /\ sim' = [sim EXCEPT !.hasRun = TRUE, !.running = FALSE]
    /\ \E resultFault \in ResultFaults(policy) :
          IF resultFault # "none"
          THEN /\ loc' = [loc EXCEPT !.thrown = resultFault]
               /\ pc' = "catch"
               /\ UNCHANGED promise
          ELSE /\ promise' = [state |-> "resolved",
                              totalTrials |-> loc.trialCount,
                              totalTrialAttempts |-> loc.trialAttemptCount,
                              code |-> "none",
                              result |-> getResult(policy)]
               /\ pc' = "done"
               /\ UNCHANGED loc
    /\ UNCHANGED <<i, policy, lastRun, progress, evalVars>>

\* variant: the .catch handler leaves the running flag set
Catch_StillRunning ==
    /\ pc = "catch"
    /\ sim' = [sim EXCEPT !.hasRun = TRUE]
    /\ promise' = [NoPromise EXCEPT !.state = "rejected", !.code = loc.thrown]
    /\ pc' = "failed"
    /\ UNCHANGED <<loc, i, policy, lastRun, progress, evalVars>>

\* the .catch handler
Catch ==
    /\ pc = "catch"
    /\ sim' = [sim EXCEPT !.hasRun = TRUE, !.running = FALSE]
    /\ promise' = [NoPromise EXCEPT !.state = "rejected", !.code = loc.thrown]
    /\ pc' = "failed"
    /\ UNCHANGED <<loc, i, policy, lastRun, progress, evalVars>>

\* the steps the event loop takes on its own once run() was called
EventLoop == Test \/ Deal \/ Progress \/ Yield \/ Then \/ Catch

\* the attempt caps tried with a batch size: omitted, small, 50, and from one
\* full batch up to MaxTrials more
AttemptsChoices(cpuHog) ==
    LET rounds == IF cpuHog THEN HIGH_ROUNDS_PER_CYCLE ELSE NORMAL_ROUNDS_PER_CYCLE
    IN  (0..MaxTrials) \cup {50} \cup {rounds + e : e \in 0..MaxTrials}

\* the constructor arguments tried: trials 0..MaxTrials with every attempt cap
\* above, and trials = 100 with the cap omitted or 100
SimArguments ==
    {<<trials, trialAttempts, cpuHog>> :
        trials \in 0..MaxTrials, trialAttempts \in AttemptsChoices(FALSE), cpuHog \in {FALSE}}
    \cup {<<trials, trialAttempts, cpuHog>> :
        trials \in 0..MaxTrials, trialAttempts \in AttemptsChoices(TRUE), cpuHog \in {TRUE}}
    \cup {<<NORMAL_ROUNDS_PER_CYCLE, 0, FALSE>>,
          <<NORMAL_ROUNDS_PER_CYCLE, NORMAL_ROUNDS_PER_CYCLE, FALSE>>}

SimInit ==
    /\ \E args \in SimArguments :
            sim = IF NewSimulator(args[1], args[2], args[3]).threw
                  THEN NoSimulator
                  ELSE NewSimulator(args[1], args[2], args[3]).val
    /\ policy \in Policies
    /\ pc = "idle"
    /\ loc = NoClosure
    /\ i = 0
    /\ promise = NoPromise
    /\ lastRun = NoReturn
    /\ progress = NoProgress
    /\ hand = <<>>
    /\ call = "none"
    /\ operands = <<>>
    /\ returned = NoReturn

SimNext == Run \/ Test \/ Deal \/ Progress \/ Yield \/ Then \/ Catch

SimSpec == SimInit /\ [][SimNext]_vars

\* the event loop runs every callback that is due
SimFairSpec == SimSpec /\ WF_vars(EventLoop)

----------------------------------------------------------------------------
(* lib/hand-improvement-simulator.js *)

\* what reading a property of undefined throws
TYPE_ERROR == "TypeError"

\* new HandImprovementSimulator(relevanceMatch, acceptanceMatch, trials,
\* trialAttempts): the simulator and the fields of the subclass, or the throw;
\* the matches are arrays, Omitted when left out
HandImprovementSimulator(relevanceMatch, acceptanceMatch, trials, trialAttempts) ==
    LET pokerTable == PokerTable(1, <<0>>)
        super == NewSimulator(trials, trialAttempts, FALSE)
    IN  IF pokerTable.threw THEN pokerTable
        ELSE IF super.threw THEN super
        ELSE IF acceptanceMatch = Omitted THEN Throw(INVALID_ARGUMENT)
        ELSE IF relevanceMatch = Omitted THEN Throw(TYPE_ERROR)
        ELSE Return([sim |-> super.val,
                     policy |-> [Hooks("improvement", "accept", FALSE) EXCEPT
                                   !.relevanceMatch = normalizePokerRoundMatches(relevanceMatch[1]),
                                   !.acceptanceMatch = normalizePokerRoundMatches(acceptanceMatch[1])]])

\* the matches of the simulators of the model: a flush draw lacking one card
\* at the flop, a flush at the river, for the protagonist or for a player the
\* table does not have
ImprovementMatches ==
    {[playerIndex |-> playerIndex, roundPart |-> staged[1], query |-> staged[2]] :
        playerIndex \in {Omitted, Given(1)},
        staged \in {<<"flop", FlushDrawQuery>>, <<"river", FlushQuery>>}}

\* no match, or one
ImprovementMatchLists == {<<>>} \cup {<<match>> : match \in ImprovementMatches}

ImprovementArguments ==
    {<<relevanceMatch, acceptanceMatch, trials, trialAttempts>> :
        relevanceMatch \in {Omitted} \cup {Given(m) : m \in ImprovementMatchLists},
        acceptanceMatch \in {Omitted} \cup {Given(m) : m \in ImprovementMatchLists},
        trials \in 0..MaxTrials,
        trialAttempts \in 0..(MaxTrials + 1)}

ImproveInit ==
    /\ \E args \in ImprovementArguments :
          LET made == HandImprovementSimulator(args[1], args[2], args[3], args[4])
          IN  /\ sim = IF made.threw THEN NoSimulator ELSE made.val.sim
              /\ policy = IF made.threw THEN NoPolicy ELSE made.val.policy
    /\ pc = "idle"
    /\ loc = NoClosure
    /\ i = 0
    /\ promise = NoPromise
    /\ lastRun = NoReturn
    /\ progress = NoProgress
    /\ hand = <<>>
    /\ call = "none"
    /\ operands = <<>>
    /\ returned = NoReturn

ImproveSpec == ImproveInit /\ [][SimNext]_vars

----------------------------------------------------------------------------
(* Specification of the evaluator: a hand, then one call of an entry point *)

\* no Simulator exists while the evaluator is exercised
SimIdle ==
    /\ sim = NoSimulator
    /\ pc = "idle"
    /\ loc = NoClosure
    /\ i = 0
    /\ promise = NoPromise
    /\ policy = NoPolicy
    /\ lastRun = NoReturn
    /\ progress = NoProgress

Init ==
    /\ hand \in Hands
    /\ call = "none"
    /\ operands = <<>>
    /\ returned = NoReturn
    /\ SimIdle

CallGetHandResult ==
    /\ call = "none"
    /\ call' = "getHandResult"
    /\ returned' = getHandResult(hand)
    /\ UNCHANGED <<hand, operands, simVars>>

CallGetEvaluationByType ==
    \E evaluatorType \in CalledTypes :
        /\ call = "none"
        /\ call' = evaluatorType
        /\ returned' = getEvaluationByType(hand, evaluatorType)
        /\ UNCHANGED <<hand, operands, simVars>>

CallGetFullEvaluation ==
    /\ call = "none"
    /\ call' = "getFullEvaluation"
    /\ returned' = getFullEvaluation(hand)
    /\ UNCHANGED <<hand, operands, simVars>>

\* the caller compares the result it got for its hand with the result of a
\* reference hand, in either order, or with itself
CallCompareHandResults ==
    /\ call = "getHandResult"
    /\ ~returned.threw
    /\ \E other \in ReferenceResults :
          operands' \in {<<returned.val, other>>, <<other, returned.val>>,
                         <<returned.val, returned.val>>}
    /\ call' = "compareHandResults"
    /\ returned' = compareHandResults(operands'[1], operands'[2])
    /\ UNCHANGED <<hand, simVars>>

\* an object whose type is no key of the evaluator table
UntypedResult == [type |-> "no-such-category"]

\* the caller hands the draw it got for its hand to compareHandResults,
\* with the result of the hand, with the draw itself or with an object of an
\* unknown type, in either order
CallCompareEvaluations ==
    /\ call \in DrawTypes
    /\ ~returned.threw
    /\ returned.val # Null
    /\ \E other \in {getHandResult(hand).val, returned.val, UntypedResult} :
          operands' \in {<<returned.val, other>>, <<other, returned.val>>}
    /\ call' = "compareHandResults(evaluation)"
    /\ returned' = compareHandResults(operands'[1], operands'[2])
    /\ UNCHANGED <<hand, simVars>>

Next ==
    \/ CallGetHandResult
    \/ CallGetEvaluationByType
    \/ CallGetFullEvaluation
    \/ CallCompareHandResults
    \/ CallCompareEvaluations

Spec == Init /\ [][Next]_vars

----------------------------------------------------------------------------
(* lib/card-utils.js: identifiers and components *)

\* an identifier, from 0 to 53, or a value from 1 to 15 with a suit from 0 to 5
CardInit ==
    /\ operands \in {<<cardId>> : cardId \in 0..53}
                    \cup {<<value, suit>> : value \in 1..15, suit \in 0..5}
    /\ hand = <<>>
    /\ call = "none"
    /\ returned = NoReturn
    /\ SimIdle

CallGetCardComponents ==
    /\ call = "none"
    /\ Len(operands) = 1
    /\ call' = "getCardComponents"
    /\ returned' = IF validateCard(operands[1]).threw THEN validateCard(operands[1])
                   ELSE Return(getCardComponents(operands[1]))
    /\ UNCHANGED <<hand, operands, simVars>>

CallGetCardIdFromComponents ==
    /\ call = "none"
    /\ Len(operands) = 2
    /\ call' = "getCardIdFromComponents"
    /\ returned' = getCardIdFromComponents(operands[1], operands[2])
    /\ UNCHANGED <<hand, operands, simVars>>

\* the components that were returned are turned into an identifier again
CallIdOfComponents ==
    /\ call = "getCardComponents"
    /\ ~returned.threw
    /\ call' = "getCardIdFromComponents(getCardComponents)"
    /\ returned' = getCardIdFromComponents(returned.val.value, returned.val.suit)
    /\ UNCHANGED <<hand, operands, simVars>>

\* the identifier that was returned is split into its components again
CallComponentsOfId ==
    /\ call = "getCardIdFromComponents"
    /\ ~returned.threw
    /\ call' = "getCardComponents(getCardIdFromComponents)"
    /\ returned' = IF validateCard(returned.val).threw THEN validateCard(returned.val)
                   ELSE Return(getCardComponents(returned.val))
    /\ UNCHANGED <<hand, operands, simVars>>

CardNext ==
    \/ CallGetCardComponents
    \/ CallGetCardIdFromComponents
    \/ CallIdOfComponents
    \/ CallComponentsOfId

CardSpec == CardInit /\ [][CardNext]_vars

----------------------------------------------------------------------------
(* The decks handed to getPartiallyStackedDeck *)

DeckInit ==
    /\ operands \in {<<sections, rng>> : sections \in StackSections, rng \in RngStreams}
    /\ hand = <<>>
    /\ call = "none"
    /\ returned = NoReturn
    /\ SimIdle

CallGetPartiallyStackedDeck ==
    /\ call = "none"
    /\ Len(operands) = 2
    /\ call' = "getPartiallyStackedDeck"
    /\ returned' = getPartiallyStackedDeck(operands[1], operands[2])
    /\ UNCHANGED <<hand, operands, simVars>>

DeckNext == CallGetPartiallyStackedDeck

DeckSpec == DeckInit /\ [][DeckNext]_vars

----------------------------------------------------------------------------
(* The rounds whose winners are asked for *)

RoundInit ==
    /\ operands \in {<<round>> : round \in Rounds}
    /\ hand = <<>>
    /\ call = "none"
    /\ returned = NoReturn
    /\ SimIdle

CallGetWinningPlayers ==
    /\ call = "none"
    /\ Len(operands) = 1
    /\ call' = "getWinningPlayers"
    /\ returned' = getWinningPlayers(operands[1])
    /\ UNCHANGED <<hand, operands, simVars>>

RoundNext == CallGetWinningPlayers

RoundSpec == RoundInit /\ [][RoundNext]_vars

----------------------------------------------------------------------------
(* The rounds and matches handed to processPokerRoundMatches *)

MatchInit ==
    /\ operands \in {<<pokerRound, matches, skipNormalize>> :
                       pokerRound \in MatchRounds, matches \in MatchLists,
                       skipNormalize \in BOOLEAN}
    /\ hand = <<>>
    /\ call = "none"
    /\ returned = NoReturn
    /\ SimIdle

CallProcessPokerRoundMatches ==
    /\ call = "none"
    /\ Len(operands) = 3
    /\ call' = "processPokerRoundMatches"
    /\ returned' = processPokerRoundMatches(operands[1], operands[2], operands[3])
    /\ UNCHANGED <<hand, operands, simVars>>

MatchNext == CallProcessPokerRoundMatches

MatchSpec == MatchInit /\ [][MatchNext]_vars

----------------------------------------------------------------------------
(* The tables and their stacked decks *)

\* operands: the table, the configuration, the RNG of the table as it stands,
\* and the number of decks built; hand is the deck of the round played last
TableInit ==
    /\ operands \in UNION {{<<PokerTable(numPlayers, rng).val, config, rng, 0>> :
                              config \in Configs(numPlayers), rng \in RngStreams} :
                           numPlayers \in 1..MaxNumPlayers}
    /\ hand = <<>>
    /\ call = "none"
    /\ returned = NoReturn
    /\ SimIdle

CallCreateStackedDeckFunc ==
    /\ call = "none"
    /\ Len(operands) = 4
    /\ call' = "createStackedDeckFunc"
    /\ returned' = createStackedDeckFunc(operands[1], operands[2])
    /\ UNCHANGED <<hand, operands, simVars>>

\* table.playRound(stackedDeckFunc()): the factory builds a deck with the RNG
\* of the table, and the round is played on it
CallPlayRound ==
    /\ call \in {"createStackedDeckFunc", "playRound"}
    /\ Len(operands) = 4
    /\ ~returned.threw
    /\ operands[4] < MaxDecks
    /\ LET deck == stackedDeckFunc(returned.val, operands[3])
       IN  /\ ~deck.threw
           /\ hand' = deck.val
           /\ operands' = [operands EXCEPT ![3] = advance(@, shuffleCalls(returned.val)),
                                           ![4] = @ + 1]
    /\ call' = "playRound"
    /\ UNCHANGED <<returned, simVars>>

\* the factory throws when a card is stacked twice
CallPlayRoundThrows ==
    /\ call = "createStackedDeckFunc"
    /\ Len(operands) = 4
    /\ ~returned.threw
    /\ LET deck == stackedDeckFunc(returned.val, operands[3])
       IN  /\ deck.threw
           /\ returned' = deck
    /\ call' = "stackedDeckFunc"
    /\ UNCHANGED <<hand, operands, simVars>>

TableNext == CallCreateStackedDeckFunc \/ CallPlayRound \/ CallPlayRoundThrows

TableSpec == TableInit /\ [][TableNext]_vars

----------------------------------------------------------------------------
(* The rounds a table plays and what is read from them *)

\* the placements of the stacked decks: none, a pocket on top, a pocket and
\* the last three cards, two cards behind the first pocket, and a card
\* stacked twice
DealSections ==
    { <<>>,
      (0 :> <<52, 13>>),
      (0 :> <<1, 2>>) @@ (49 :> <<27, 26, 51>>),
      (2 :> <<14, 40>>),
      (0 :> <<1, 2>>) @@ (2 :> <<2, 3>>) }

\* operands: before the round is played, the table and the sections of the
\* stacked deck (left out for a shuffled deck); then the round and the
\* arguments of the accessor called last
DealInit ==
    /\ operands \in UNION {{<<PokerTable(numPlayers, rng).val, deck>> :
                              rng \in RngStreams,
                              deck \in {Omitted} \cup {Given(s) : s \in DealSections}} :
                           numPlayers \in 1..MaxNumPlayers}
    /\ hand = <<>>
    /\ call = "none"
    /\ returned = NoReturn
    /\ SimIdle

\* table.playRound()
PlayShuffledRound ==
    /\ call = "none"
    /\ operands[2] = Omitted
    /\ operands' = <<playRound(operands[1], Omitted), <<>>>>
    /\ call' = "playRound"
    /\ UNCHANGED <<hand, returned, simVars>>

\* table.playRound(cardUtils.getPartiallyStackedDeck(sections, table.rng))
PlayStackedRound ==
    /\ call = "none"
    /\ operands[2] # Omitted
    /\ LET deck == getPartiallyStackedDeck(operands[2][1], operands[1].rng)
       IN  IF deck.threw
           THEN /\ call' = "getPartiallyStackedDeck"
                /\ returned' = deck
                /\ UNCHANGED operands
           ELSE /\ call' = "playRound"
                /\ operands' = <<playRound(operands[1], Given(deck.val)), <<>>>>
                /\ UNCHANGED returned
    /\ UNCHANGED <<hand, simVars>>

RoundCalls ==
    {"playRound", "getPocketCards", "getCommunityCards", "getPlayerAvailableCards",
     "getPlayerHandResult", "getWinningPlayers"}

\* the player indexes handed to the accessors of a round: the players, the
\* index before the first and the index after the last
PlayerIndexes(round) == -1..round.numPlayers

\* the accessors read this.deck with slice and concat, which leave the array
\* alone, and assign no field of the round
DealCallGetPocketCards ==
    \E playerIndex \in {Omitted} \cup {Given(p) : p \in PlayerIndexes(operands[1])} :
        /\ call \in RoundCalls
        /\ call' = "getPocketCards"
        /\ returned' = getPocketCards(operands[1], playerIndex)
        /\ operands' = <<operands[1], <<playerIndex>>>>
        /\ UNCHANGED <<hand, simVars>>

DealCallGetCommunityCards ==
    \E roundPart \in RoundParts \cup {"", "showdown"} :
        /\ call \in RoundCalls
        /\ call' = "getCommunityCards"
        /\ returned' = getCommunityCards(operands[1], roundPart)
        /\ operands' = <<operands[1], <<roundPart>>>>
        /\ UNCHANGED <<hand, simVars>>

DealCallGetPlayerAvailableCards ==
    \E playerIndex \in 0..(operands[1].numPlayers - 1), roundPart \in RoundParts :
        /\ call \in RoundCalls
        /\ call' = "getPlayerAvailableCards"
        /\ returned' = getPlayerAvailableCards(operands[1], Given(playerIndex), roundPart)
        /\ operands' = <<operands[1], <<Given(playerIndex), roundPart>>>>
        /\ UNCHANGED <<hand, simVars>>

DealCallGetPlayerHandResult ==
    \E playerIndex \in 0..(operands[1].numPlayers - 1) :
        /\ call \in RoundCalls
        /\ call' = "getPlayerHandResult"
        /\ returned' = getPlayerHandResult(operands[1], playerIndex)
        /\ operands' = <<operands[1], <<playerIndex>>>>
        /\ UNCHANGED <<hand, simVars>>

DealCallGetWinningPlayers ==
    /\ call \in RoundCalls
    /\ call' = "getWinningPlayers"
    /\ returned' = getWinningPlayers(operands[1])
    /\ operands' = <<operands[1], <<>>>>
    /\ UNCHANGED <<hand, simVars>>

DealNext ==
    \/ PlayShuffledRound
    \/ PlayStackedRound
    \/ DealCallGetPocketCards
    \/ DealCallGetCommunityCards
    \/ DealCallGetPlayerAvailableCards
    \/ DealCallGetPlayerHandResult
    \/ DealCallGetWinningPlayers

DealSpec == DealInit /\ [][DealNext]_vars

----------------------------------------------------------------------------
(* new Simulator(pokerTable, trials, trialAttempts, cpuHog) *)

\* the values tried as trials and trialAttempts: the numbers -1, -0.5, 0, ...,
\* MaxTrials, NaN, a string and undefined
JsValues == {Halves(k) : k \in -2..(2 * MaxTrials)} \cup {NaN, String, Undefined}

CtorInit ==
    /\ operands \in {<<trials, trialAttempts, cpuHog>> :
                        trials \in JsValues, trialAttempts \in JsValues, cpuHog \in BOOLEAN}
    /\ hand = <<>>
    /\ call = "none"
    /\ returned = NoReturn
    /\ SimIdle

CallConstructor ==
    /\ call = "none"
    /\ call' = "constructor"
    /\ returned' = constructor(operands[1], operands[2], operands[3])
    /\ UNCHANGED <<hand, operands, simVars>>

CtorNext == CallConstructor

CtorSpec == CtorInit /\ [][CtorNext]_vars


----------------------------------------------------------------------------
(* lib/hand-eval.js: getPocketEvaluation *)

\* variant: the Ace is not counted as the low end of the wheel
pocketValues_AceHighOnly(cards, pairValue) ==
    <<cards[1].value>> \o (IF pairValue = Null THEN <<cards[2].value>> ELSE <<>>)

\* the values the straights are tested against
pocketValues(cards, pairValue) ==
    <<cards[1].value>>
        \o (IF pairValue = Null THEN <<cards[2].value>> ELSE <<>>)
        \o (IF cards[1].value = ACE THEN <<ACE_LOW>> ELSE <<>>)

includedCards(values, straightHead) ==
    Cardinality({k \in 1..Len(values) :
                    straightHead >= values[k] /\ straightHead - values[k] < 5})

\* null is Null and a number n is Number(n) in pairValue, suitedSuit and
\* valueSpread
getPocketEvaluation(pocket) ==
    IF Len(pocket) # 2 THEN Throw(INVALID_ARGUMENT)
    ELSE IF \E k \in 1..2 : validateCard(pocket[k]).threw THEN Throw(INVALID_ARGUMENT)
    ELSE
    LET cards == ArraySort(getCardComponentsArray(pocket), CompareByValue)
    IN  IF cards[1].cardId = cards[2].cardId THEN Throw(INVALID_ARGUMENT)
        ELSE
        LET pairValue == IF cards[1].value = cards[2].value
                         THEN Number(cards[1].value) ELSE Null
            suitedSuit == IF cards[1].suit = cards[2].suit
                          THEN Number(cards[1].suit) ELSE Null
            spread == cards[1].value - cards[2].value
            valueSpread ==
                IF pairValue # Null THEN Null
                ELSE IF cards[1].value = ACE /\ cards[2].value - ACE_LOW < spread
                THEN Number(cards[2].value - ACE_LOW)
                ELSE Number(spread)
            values == pocketValues(cards, pairValue)
        IN  Return([cards |-> cards,
                    cardIds |-> getCardIdsFromCardArray(cards),
                    pairValue |-> pairValue,
                    suitedSuit |-> suitedSuit,
                    valueSpread |-> valueSpread,
                    inclusiveStraightCount |->
                        Cardinality({straightHead \in FIVE..ACE :
                                        includedCards(values, straightHead) = 2}),
                    semiInclusiveStraightCount |->
                        Cardinality({straightHead \in FIVE..ACE :
                                        includedCards(values, straightHead) = 1})])

\* the pockets handed to getPocketEvaluation: every two cards, in both
\* orders, a card twice, and arrays of one and of three cards
Pockets ==
    {<<a, b>> : a \in 1..52, b \in 1..52}
        \cup {<<a>> : a \in 1..52}
        \cup {<<a, a + 1, a + 2>> : a \in 1..50}

PocketInit ==
    /\ operands \in {<<pocket>> : pocket \in Pockets}
    /\ hand = <<>>
    /\ call = "none"
    /\ returned = NoReturn
    /\ SimIdle

CallGetPocketEvaluation ==
    /\ call = "none"
    /\ call' = "getPocketEvaluation"
    /\ returned' = getPocketEvaluation(operands[1])
    /\ UNCHANGED <<hand, operands, simVars>>

PocketNext == CallGetPocketEvaluation

PocketSpec == PocketInit /\ [][PocketNext]_vars

----------------------------------------------------------------------------
(* Properties of the evaluator (specification Spec) *)

Range(s) == {s[k] : k \in 1..Len(s)}

\* a hand the evaluator has to accept: 5 to 7 distinct identifiers of 1..52
IsValidHand(h) ==
    /\ Len(h) \in 5..7
    /\ Cardinality(Range(h)) = Len(h)
    /\ Range(h) \subseteq 1..52

ValuesOf(cardIds) == {getCardComponents(c).value : c \in cardIds}

SuitCards(cardIds, suit) == {c \in cardIds : getCardComponents(c).suit = suit}

\* the 5-card hands contained in a hand
FiveCardHands(h) == {SetToSeq(S) : S \in {T \in SUBSET Range(h) : Cardinality(T) = 5}}

\* r is not beaten by any result of R and ties with one of them of its own category
IsStrongestOf(r, R) ==
    /\ \A x \in R : LET c == compareHandResults(r, x) IN ~c.threw /\ c.val <= 0
    /\ \E x \in R : compareHandResults(r, x) = Return(0) /\ x.type = r.type

\* C1: for every valid hand of 5 to 7 cards getHandResult returns a result
\* that compares equal to the strongest of the results of the hand's 5-card
\* subsets, and whose category is the strongest category a subset attains.
C1_BestFiveCardHand ==
    (call = "getHandResult" /\ IsValidHand(hand)) =>
        /\ ~returned.threw
        /\ returned.val # Null
        /\ IsStrongestOf(returned.val, {getHandResult(s).val : s \in FiveCardHands(hand)})

\* a 7-card hand with three cards of one value and three of another
C1_Witness ==
    /\ call = "getHandResult"
    /\ Len(hand) = 7
    /\ ~returned.threw
    /\ returned.val.type = "full-house"
    /\ \E v \in ValuesOf(Range(hand)) \ {returned.val.threeValue} :
          Cardinality({c \in Range(hand) : getCardComponents(c).value = v}) = 3

\* the ranking of the categories, 9 the strongest
CategoryStrength(type) ==
    CASE type = "straight-flush" -> 9
      [] type = "four-of-a-kind" -> 8
      [] type = "full-house" -> 7
      [] type = "flush" -> 6
      [] type = "straight" -> 5
      [] type = "three-of-a-kind" -> 4
      [] type = "two-pair" -> 3
      [] type = "pair" -> 2
      [] type = "high-cards" -> 1

\* C2: for two results of getHandResult of different categories
\* compareHandResults returns -1 when the first one's category is the
\* stronger in the fixed ranking and 1 otherwise, whatever their fields.
C2_CategoryDecides ==
    (call = "compareHandResults" /\ operands[1].type # operands[2].type) =>
        returned = Return(IF CategoryStrength(operands[1].type)
                               > CategoryStrength(operands[2].type)
                          THEN -1 ELSE 1)

\* a pair of twos beats high cards whose every card is higher than a two
C2_Witness ==
    /\ call = "compareHandResults"
    /\ operands[1].type = "pair"
    /\ operands[1].value = 2
    /\ operands[2].type = "high-cards"
    /\ \A k \in 1..5 : operands[2].kickerValues[k] > 2
    /\ returned = Return(-1)

\* C3: compareHandResults(x, x) returns 0 for every result x of getHandResult.
C3_SelfCompare ==
    (call = "compareHandResults" /\ operands[1] = operands[2]) => returned = Return(0)

C3_Witness ==
    /\ call = "compareHandResults"
    /\ operands[1] = operands[2]
    /\ operands[1].type = "two-pair"
    /\ returned = Return(0)

WheelValues == {ACE, 2, 3, 4, 5}

\* the values hold five consecutive values ending above 5
HasStraightAboveWheel(values) ==
    \E head \in 6..ACE : \A k \in 0..4 : (head - k) \in values

\* five distinct cards of the hand: a 5, a 4, a 3, a 2 and one Ace
IsWheel(cardIds, h) ==
    /\ Len(cardIds) = 5
    /\ Cardinality(Range(cardIds)) = 5
    /\ Range(cardIds) \subseteq Range(h)
    /\ ValuesOf(Range(cardIds)) = WheelValues

MadeOfWheel(result) == ValuesOf(Range(result.cardIds)) = WheelValues

\* C4: a hand whose best straight is A-2-3-4-5 evaluates to a straight with
\* highValue 5, and to a straight-flush with highValue 5 when the five cards
\* share a suit; the cardIds are the 5, 4, 3, 2 and one Ace; and a wheel
\* compares weaker than every other straight (straight-flush).
C4_Wheel ==
    /\ (/\ call \in {"straight", "getHandResult"}
        /\ IsValidHand(hand)
        /\ WheelValues \subseteq ValuesOf(Range(hand))
        /\ ~HasStraightAboveWheel(ValuesOf(Range(hand)))
        /\ (call = "getHandResult" => returned.val.type = "straight"))
       => /\ ~returned.threw
          /\ returned.val.type = "straight"
          /\ returned.val.highValue = 5
          /\ IsWheel(returned.val.cardIds, hand)
    /\ (/\ call \in {"straight-flush", "getHandResult"}
        /\ IsValidHand(hand)
        /\ \E suit \in 1..4 : WheelValues \subseteq ValuesOf(SuitCards(Range(hand), suit))
        /\ \A suit \in 1..4 : ~HasStraightAboveWheel(ValuesOf(SuitCards(Range(hand), suit))))
       => /\ ~returned.threw
          /\ returned.val.type = "straight-flush"
          /\ returned.val.highValue = 5
          /\ IsWheel(returned.val.cardIds, hand)
          /\ Range(returned.val.cardIds) = SuitCards(Range(returned.val.cardIds), returned.val.suit)
    /\ (/\ call = "compareHandResults"
        /\ operands[1].type = operands[2].type
        /\ operands[1].type \in {"straight", "straight-flush"})
       => /\ (MadeOfWheel(operands[1]) /\ ~MadeOfWheel(operands[2])) => returned = Return(1)
          /\ (~MadeOfWheel(operands[1]) /\ MadeOfWheel(operands[2])) => returned = Return(-1)

\* a wheel with a pair in it, compared with an Ace-high straight
C4_Witness ==
    /\ call = "compareHandResults"
    /\ Len(hand) = 7
    /\ operands[1].type = "straight"
    /\ MadeOfWheel(operands[1])
    /\ operands[1].highValue = 5
    /\ operands[2].type = "straight"
    /\ operands[2].highValue = ACE
    /\ returned = Return(1)

EntryPoints == {"getHandResult", "getFullEvaluation"} \cup CalledTypes

\* C5: getHandResult, getEvaluationByType and getFullEvaluation throw an
\* invalid-argument error when the hand has fewer than 5 or more than 7 cards
\* or holds one identifier twice, at any two positions; every hand of 5 to 7
\* distinct identifiers is accepted.
C5_InputChecking ==
    call \in EntryPoints =>
        /\ ~IsValidHand(hand) => returned = Throw(INVALID_ARGUMENT)
        /\ (IsValidHand(hand) /\ call \in {"getHandResult", "getFullEvaluation"})
              => (~returned.threw /\ returned.val # Null)
        /\ (IsValidHand(hand) /\ call \in ResultTypes) => ~returned.threw
        /\ (IsValidHand(hand) /\ call \in DrawTypes /\ Len(hand) <= 6) => ~returned.threw

\* the first card comes again at the end of a hand of 6 or 7 cards
C5_Witness ==
    /\ call = "getFullEvaluation"
    /\ Len(hand) \in 6..7
    /\ hand[1] = hand[Len(hand)]
    /\ Cardinality(Range(hand)) = Len(hand) - 1
    /\ returned = Throw(INVALID_ARGUMENT)

StrongTypes == {"straight-flush", "four-of-a-kind", "full-house"}

DetectorSucceeds(h, type) ==
    LET r == getEvaluationByType(h, type) IN ~r.threw /\ r.val # Null

\* C6: when the straight-flush, four-of-a-kind or full-house detector
\* succeeds on a valid hand, getFullEvaluation lists exactly one evaluation,
\* which is the result and of one of these three categories.
C6_StrongHandsAlone ==
    (/\ call = "getFullEvaluation"
     /\ IsValidHand(hand)
     /\ \E type \in StrongTypes : DetectorSucceeds(hand, type))
    => /\ ~returned.threw
       /\ Len(returned.val.evaluations) = 1
       /\ returned.val.evaluations[1] = returned.val.result
       /\ returned.val.result.type \in StrongTypes

\* a straight-flush, which is a flush, a straight and high cards as well
C6_Witness ==
    /\ call = "getFullEvaluation"
    /\ Len(hand) = 6
    /\ ~returned.threw
    /\ returned.val.result.type = "straight-flush"
    /\ DetectorSucceeds(hand, "flush-draw")
    /\ Len(returned.val.evaluations) = 1

HasMadeFlush(h) == \E suit \in 1..4 : Cardinality(SuitCards(Range(h), suit)) >= 5

HasMadeStraight(h) ==
    LET values == ValuesOf(Range(h))
    IN  \E head \in FIVE..ACE :
           \A k \in 0..4 : \/ (head - k) \in values
                           \/ (head - k = ACE_LOW /\ ACE \in values)

Listed(type) ==
    \E k \in 1..Len(returned.val.evaluations) : returned.val.evaluations[k].type = type

\* C7: getFullEvaluation never lists a flush-draw for a hand holding a made
\* flush, nor a straight-draw for a hand holding a made straight; the draw of
\* the other family is still listed when it exists.
C7_NoDrawBesideMadeHand ==
    (call = "getFullEvaluation" /\ IsValidHand(hand)) =>
        /\ ~returned.threw
        /\ HasMadeFlush(hand) => ~Listed("flush-draw")
        /\ HasMadeStraight(hand) => ~Listed("straight-draw")
        /\ (/\ HasMadeFlush(hand)
            /\ ~HasMadeStraight(hand)
            /\ DetectorSucceeds(hand, "straight-draw")) => Listed("straight-draw")
        /\ (/\ HasMadeStraight(hand)
            /\ ~HasMadeFlush(hand)
            /\ \A type \in StrongTypes : ~DetectorSucceeds(hand, type)
            /\ DetectorSucceeds(hand, "flush-draw")) => Listed("flush-draw")

\* six cards: a made flush and four values of a straight
C7_Witness ==
    /\ call = "getFullEvaluation"
    /\ Len(hand) = 6
    /\ ~returned.threw
    /\ HasMadeFlush(hand)
    /\ Listed("flush")
    /\ Listed("straight-draw")
    /\ ~Listed("flush-draw")

\* C8: for a valid 7-card hand getFullEvaluation lists no flush-draw and no
\* straight-draw, and getEvaluationByType with a draw type throws an
\* invalid-argument error.
C8_NoDrawsOnSevenCards ==
    (IsValidHand(hand) /\ Len(hand) = 7) =>
        /\ call = "getFullEvaluation" =>
              (~returned.threw /\ ~Listed("flush-draw") /\ ~Listed("straight-draw"))
        /\ call \in DrawTypes => returned = Throw(INVALID_ARGUMENT)

\* seven cards, four of them of one suit
C8_Witness ==
    /\ call = "getFullEvaluation"
    /\ IsValidHand(hand)
    /\ Len(hand) = 7
    /\ \E suit \in 1..4 : Cardinality(SuitCards(Range(hand), suit)) = 4
    /\ ~returned.threw
    /\ ~Listed("flush-draw")

Min(a, b) == IF a <= b THEN a ELSE b

Settled == promise.state \in {"resolved", "rejected"}

\* a subclass whose hooks return normally
HooksReturn == policy.kind = "subclass" /\ ~policy.faulty

\* C9: run() always terminates. The number of deals never exceeds the attempt
\* cap; the promise of a run is eventually settled, and resolved when the
\* hooks of the subclass return normally; a resolved run whose relevance
\* predicate always accepts reports totalTrials = totalTrialAttempts =
\* min(trials, trialAttempts), one whose predicate always rejects reports
\* totalTrials = 0 and totalTrialAttempts = trialAttempts.
C9_RunTerminates ==
    /\ [](loc.trialAttemptCount <= sim.trialAttempts)
    /\ (promise.state = "pending") ~> Settled
    /\ (promise.state = "pending" /\ HooksReturn) ~> (promise.state = "resolved")
    /\ [](promise.state = "resolved" =>
            /\ promise.totalTrialAttempts <= sim.trialAttempts
            /\ policy.relevance = "accept" =>
                  /\ promise.totalTrials = Min(sim.trials, sim.trialAttempts)
                  /\ promise.totalTrialAttempts = Min(sim.trials, sim.trialAttempts)
            /\ policy.relevance = "reject" =>
                  /\ promise.totalTrials = 0
                  /\ promise.totalTrialAttempts = sim.trialAttempts)

\* 100 trials, 100 attempts, every round relevant: 100 of 100
C9_Witness ==
    /\ promise.state = "resolved"
    /\ policy.relevance = "accept"
    /\ sim.trials = 100
    /\ sim.trialAttempts = 100
    /\ promise.totalTrials = 100
    /\ promise.totalTrialAttempts = 100

\* C10: a simulator runs at most once. A call of run() while the simulator
\* is running or after it has run throws an internal error and changes
\* neither the flags of the simulator, nor the counters of the run in
\* progress, nor its position, nor its promise; and a simulator that has run
\* is never running again.
C10_RunsAtMostOnce ==
    /\ [][(Run /\ (sim.running \/ sim.hasRun)) =>
            /\ lastRun' = Throw(INTERNAL_ERROR)
            /\ UNCHANGED <<sim, pc, loc, i, promise, progress>>]_vars
    /\ [][sim.hasRun => (sim'.hasRun /\ ~sim'.running)]_vars

\* run() was refused and the run in progress waits between its first and
\* its second batch
C10_Witness ==
    /\ lastRun = Throw(INTERNAL_ERROR)
    /\ sim.running
    /\ pc = "yield"
    /\ progress.calls = 1
    /\ ~loc.finished
    /\ loc.trialAttemptCount = sim.roundsPerCycle

\* an error was thrown inside the loop or its handlers and is on its way to
\* the caller, or has reached it
Aborted == pc \in {"catch", "failed"}

\* C11: when dealing, the relevance check or the processing step throws, no
\* further round is dealt; the promise is eventually rejected, with the error
\* that was thrown, and the simulator then has hasRun set and running
\* cleared, so that run() is refused from then on. The base Simulator fails
\* with an internal error on its first round.
C11_ErrorAbortsRun ==
    /\ [][Aborted => (loc' = loc /\ i' = i /\ progress' = progress /\ Aborted')]_vars
    /\ (pc = "catch") ~> (promise.state = "rejected")
    /\ [](promise.state = "rejected" =>
            /\ pc = "failed"
            /\ loc.thrown # "none"
            /\ promise.code = loc.thrown
            /\ sim.hasRun
            /\ ~sim.running
            /\ runGuard(sim) = Throw(INTERNAL_ERROR))
    /\ [][(promise.state = "rejected" /\ Run) =>
            (lastRun' = Throw(INTERNAL_ERROR) /\ UNCHANGED <<sim, pc, loc, i, promise>>)]_vars
    /\ [](policy.kind = "base" => promise.state # "resolved")
    /\ []((policy.kind = "base" /\ Aborted) =>
            /\ loc.thrown = INTERNAL_ERROR
            /\ loc.trialAttemptCount = 1
            /\ loc.trialCount = 1
            /\ progress.calls = 0)

\* the processing step of a subclass threw on the second relevant round, after
\* a round that was not relevant; the promise is rejected and a later run()
\* was refused
C11_Witness ==
    /\ promise.state = "rejected"
    /\ policy.kind = "subclass"
    /\ promise.code = INVALID_ARGUMENT
    /\ loc.trialCount = 2
    /\ loc.trialAttemptCount = 3
    /\ sim.hasRun
    /\ ~sim.running
    /\ lastRun = Throw(INTERNAL_ERROR)

IsPositiveInteger(v) == v.type = "number" /\ ~v.nan /\ v.twice % 2 = 0 /\ v.twice >= 2

\* C12: the constructor throws an invalid-argument error unless trials is a
\* positive integer, so that every constructed simulator has an integer
\* trial target. (The constructor accepts 1.5 and NaN.)
C12_TrialsPositiveInteger ==
    call = "constructor" =>
        /\ ~IsPositiveInteger(operands[1]) => returned = Throw(INVALID_ARGUMENT)
        /\ ~returned.threw => IsPositiveInteger(returned.val.trials)

\* what the constructor does check: trials is a number and is not below 1
C12_TrialsNumberNotBelowOne ==
    call = "constructor" =>
        (returned.threw <=> (operands[1].type # "number" \/ lessThan(operands[1], 1)))

\* new Simulator(pokerTable, NaN) is constructed, with an attempt cap of NaN
C12_Witness ==
    /\ call = "constructor"
    /\ operands[1] = NaN
    /\ operands[2] = Undefined
    /\ ~returned.threw
    /\ returned.val.trials = NaN
    /\ returned.val.trialAttempts = NaN

\* C15: for every identifier of 1..52 getCardComponents yields a value of
\* 2..14 and a suit of 1..4 with id = (suit-1)*13 + (value-1), and
\* getCardIdFromComponents gives the identifier back; every value of 2..14
\* with a suit of 1..4 gives an identifier of 1..52 whose components are that
\* value and that suit.
C15_IdComponentsBijection ==
    /\ (call = "getCardComponents" /\ operands[1] \in 1..52) =>
          /\ ~returned.threw
          /\ returned.val.cardId = operands[1]
          /\ returned.val.value \in 2..14
          /\ returned.val.suit \in 1..4
          /\ operands[1] = (returned.val.suit - 1) * 13 + (returned.val.value - 1)
    /\ call = "getCardIdFromComponents(getCardComponents)" => returned = Return(operands[1])
    /\ (call = "getCardIdFromComponents" /\ operands[1] \in 2..14 /\ operands[2] \in 1..4) =>
          (~returned.threw /\ returned.val \in 1..52)
    /\ call = "getCardComponents(getCardIdFromComponents)" =>
          /\ ~returned.threw
          /\ returned.val.value = operands[1]
          /\ returned.val.suit = operands[2]

\* identifier 26, the Ace of the second suit, went there and back
C15_Witness ==
    /\ call = "getCardIdFromComponents(getCardComponents)"
    /\ operands = <<26>>
    /\ returned = Return(26)

----------------------------------------------------------------------------
(* getPartiallyStackedDeck *)

\* the placements hold pairwise distinct cards, do not overlap and fit in the deck
PlacementsFit(sections) ==
    /\ ~stackedTwice(sectionEntries(sections))
    /\ \A o \in DOMAIN sections : o + Len(sections[o]) <= 52
    /\ \A o1 \in DOMAIN sections, o2 \in DOMAIN sections :
          o1 < o2 => o1 + Len(sections[o1]) <= o2

\* the 0-based positions of the deck taken by the placements
PlacedPositions(sections) ==
    UNION {{o + k : k \in 0..(Len(sections[o]) - 1)} : o \in DOMAIN sections}

PlacedCards(sections) ==
    UNION {{sections[o][k] : k \in 1..Len(sections[o])} : o \in DOMAIN sections}

\* C16: for every RNG and all placements of pairwise distinct cards at
\* non-overlapping offsets that fit in the deck, getPartiallyStackedDeck returns
\* a deck of 52 cards with the k-th card (from 0) of each placement at position
\* offset + k, and the other positions hold, each once, the cards not placed.
C16_StackedDeckPlacement ==
    (call = "getPartiallyStackedDeck" /\ PlacementsFit(operands[1])) =>
        LET sections == operands[1]
            deck == returned.val
            free == (0..51) \ PlacedPositions(sections)
        IN  /\ ~returned.threw
            /\ Len(deck) = 52
            /\ \A o \in DOMAIN sections : \A k \in 0..(Len(sections[o]) - 1) :
                  deck[o + k + 1] = sections[o][k + 1]
            /\ {deck[p + 1] : p \in free} = (1..52) \ PlacedCards(sections)
            /\ \A p \in free, q \in free : p # q => deck[p + 1] # deck[q + 1]

\* a pocket at the head and three cards at the end of the deck, with an RNG
\* whose shuffle moves cards: 47 cards are left for the other places
C16_Witness ==
    /\ call = "getPartiallyStackedDeck"
    /\ PlacementsFit(operands[1])
    /\ DOMAIN operands[1] = {0, 49}
    /\ Len(operands[1][0]) = 2
    /\ Len(operands[1][49]) = 3
    /\ ~returned.threw
    /\ \E p \in 3..48 : returned.val[p] > returned.val[p + 1]

----------------------------------------------------------------------------
(* createStackedDeckFunc *)

\* the configuration names a player of the table and holds distinct cards,
\* each with an identifier
ConfigInClaim ==
    /\ Len(operands) = 4
    /\ operands[2][1].index < operands[1].numPlayers
    /\ ~cardIdsOf(operands[2][1].cards).threw
    /\ ~cardIdsOf(operands[2][2].cards).threw
    /\ LET all == cardIdsOf(operands[2][1].cards).val \o cardIdsOf(operands[2][2].cards).val
       IN  \A p \in 1..Len(all), q \in 1..Len(all) : p # q => all[p] # all[q]

\* C17: for a table of N players and every player i with 0 <= i < N,
\* createStackedDeckFunc({i: [a, b], community: [c, d, e]}) returns a factory,
\* and every deck of the factory has a, b at offsets 2i and 2i+1 and c, d, e
\* from offset 2N on, so that the round played on it has getPocketCards(i) =
\* [a, b] and the flop [c, d, e].
C17_StackedDeckFuncForEveryPlayer ==
    (ConfigInClaim /\ call # "none") =>
        /\ ~returned.threw
        /\ call = "playRound" =>
              LET numPlayers == operands[1].numPlayers
                  index == operands[2][1].index
                  pocket == cardIdsOf(operands[2][1].cards).val
                  community == cardIdsOf(operands[2][2].cards).val
                  round == PokerRound(numPlayers, hand)
              IN  /\ Len(hand) = 52
                  /\ hand[2 * index + 1] = pocket[1]
                  /\ hand[2 * index + 2] = pocket[2]
                  /\ \A k \in 1..3 : hand[2 * numPlayers + k] = community[k]
                  /\ getPocketCards(round, Given(index)) = Return(pocket)
                  /\ getCommunityCards(round, "flop") = Return(community)

\* the second player of a table of two is refused
C17_Witness ==
    /\ ConfigInClaim
    /\ call = "createStackedDeckFunc"
    /\ operands[1].numPlayers = 2
    /\ operands[2][1].index = 1
    /\ returned = Throw(INVALID_ARGUMENT)

\* what holds of the code: the same for the players whose doubled index is
\* below the number of players
C17_StackedDeckFuncForLowPlayers ==
    (ConfigInClaim /\ call # "none" /\ 2 * operands[2][1].index < operands[1].numPlayers) =>
        /\ ~returned.threw
        /\ call = "playRound" =>
              LET numPlayers == operands[1].numPlayers
                  index == operands[2][1].index
                  round == PokerRound(numPlayers, hand)
              IN  /\ getPocketCards(round, Given(index)) =
                        Return(cardIdsOf(operands[2][1].cards).val)
                  /\ getCommunityCards(round, "flop") =
                        Return(cardIdsOf(operands[2][2].cards).val)

----------------------------------------------------------------------------
(* getWinningPlayers *)

\* the 7-card river results of the players
RiverResults(round) ==
    [player \in 0..(round.numPlayers - 1) |-> getPlayerHandResult(round, player).val]

\* the comparisons of the results of all pairs of players
Comparisons(round) ==
    LET results == RiverResults(round)
    IN  [p \in DOMAIN results |->
            [q \in DOMAIN results |-> compareHandResults(results[p], results[q]).val]]

\* C18: getWinningPlayers returns a non-empty list of player indices in
\* strictly ascending order; no listed player is strictly beaten by any
\* player, every player not listed is strictly beaten by every listed one, and
\* the listed players compare equal.
C18_WinnersAreTheStrongest ==
    call = "getWinningPlayers" =>
        LET round == operands[1]
            winners == returned.val
            players == 0..(round.numPlayers - 1)
            listed == {winners[k] : k \in 1..Len(winners)}
            comp == Comparisons(round)
        IN  /\ ~returned.threw
            /\ Len(winners) > 0
            /\ listed \subseteq players
            /\ \A k \in 1..(Len(winners) - 1) : winners[k] < winners[k + 1]
            /\ \A w \in listed, p \in players : ~(comp[p][w] < 0)
            /\ \A w \in listed, u \in players \ listed : comp[w][u] < 0
            /\ \A w \in listed, v \in listed : comp[w][v] = 0

\* the first two players tie and the third is strictly stronger: the list of
\* the tie is discarded
C18_Witness ==
    /\ call = "getWinningPlayers"
    /\ operands[1].numPlayers = 3
    /\ Comparisons(operands[1])[0][1] = 0
    /\ Comparisons(operands[1])[2][0] < 0
    /\ returned = Return(<<2>>)

----------------------------------------------------------------------------
(* processPokerRoundMatches *)

\* the player a match is about
MatchedPlayer(match) == IF match.playerIndex = Omitted THEN 0 ELSE match.playerIndex[1]

\* the cards of the deck a match is about: the two cards of the matched
\* player and the community cards dealt at the roundPart of the match
MatchedHand(pokerRound, match) ==
    LET player == MatchedPlayer(match)
        visible == IF match.roundPart = "flop" THEN 3
                   ELSE IF match.roundPart = "turn" THEN 4 ELSE 5
    IN  [k \in 1..(2 + visible) |->
            IF k <= 2 THEN pokerRound.deck[2 * player + k]
            ELSE pokerRound.deck[2 * pokerRound.numPlayers + k - 2]]

\* the query of a match holds of a full evaluation
HoldsOf(query, evaluation) ==
    IF query.path = "resultEval.evaluations"
    THEN \E e \in Range(evaluation.evaluations) :
            e.type = query.evalType /\ e.remainingCards = query.remainingCards
    ELSE evaluation.result.type = query.evalType

\* the query of a match holds of the full evaluation of the matched hand
MatchHolds(pokerRound, match) ==
    HoldsOf(match.query, getFullEvaluation(MatchedHand(pokerRound, match)).val)

----------------------------------------------------------------------------
(* The counters of a run *)

\* run() was called and accepted
RunBegun == pc # "idle"

\* the counters are within their targets
CountersInRange ==
    RunBegun =>
        /\ 0 <= loc.trialCount
        /\ loc.trialCount <= loc.trialAttemptCount
        /\ loc.trialCount <= sim.trials
        /\ loc.trialAttemptCount <= sim.trialAttempts
        /\ (pc = "loop" =>
               /\ ~loc.finished
               /\ loc.trialCount < sim.trials
               /\ loc.trialAttemptCount < sim.trialAttempts)
        /\ (pc = "done" =>
               /\ promise.totalTrials = loc.trialCount
               /\ promise.totalTrialAttempts = loc.trialAttemptCount
               /\ (promise.totalTrials = sim.trials
                   \/ promise.totalTrialAttempts = sim.trialAttempts))

\* what a step that deals a round does to the counters
DealCounts ==
    (pc = "loop" /\ loc' # loc) =>
        /\ loc'.trialAttemptCount = loc.trialAttemptCount + 1
        /\ loc'.trialCount # loc.trialCount =>
              /\ loc'.relevant
              /\ loc'.trialCount = loc.trialCount + 1
              /\ loc'.trial = loc'.trialCount
        /\ pc' # "catch" =>
              /\ loc'.relevant => loc'.trialCount = loc.trialCount + 1
              /\ ~loc'.relevant => loc'.trialCount = loc.trialCount /\ loc'.trial = loc.trial
              /\ loc'.finished <=> (\/ loc'.trialCount = sim.trials
                                    \/ loc'.trialAttemptCount = sim.trialAttempts)
              /\ loc'.finished => pc' = "progress"

\* C19: throughout a run 0 <= trialCount <= trialAttemptCount, trialCount <=
\* trials and trialAttemptCount <= trialAttempts; every deal adds one to
\* trialAttemptCount, relevant or not; trialCount goes up by one, and the
\* processing step gets that trial number, only for a relevant round; the run
\* stops at the first deal after which trialCount = trials or
\* trialAttemptCount = trialAttempts, so one of the two holds at completion.
C19_CountersWithinTargets == [](CountersInRange) /\ [][DealCounts]_vars

\* a completed run that met its trial target below the attempt cap, with
\* rounds that were not relevant
C19_Witness ==
    /\ pc = "done"
    /\ promise.totalTrials = sim.trials
    /\ promise.totalTrials > 1
    /\ promise.totalTrials < promise.totalTrialAttempts
    /\ promise.totalTrialAttempts < sim.trialAttempts

----------------------------------------------------------------------------
(* The progress callback *)

\* ceil(n / d)
CeilDiv(n, d) == (n + d - 1) \div d

\* the callbacks made so far and the counts handed to the last one
ProgressInStep ==
    RunBegun =>
        /\ loc.trialAttemptCount - progress.trialAttemptCount <= sim.roundsPerCycle
        /\ progress.trialCount <= loc.trialCount
        /\ progress.trialAttemptCount <= loc.trialAttemptCount
        /\ (pc \in {"loop", "progress"} =>
               progress.trialAttemptCount = progress.calls * sim.roundsPerCycle)
        /\ (pc \in {"yield", "test", "then", "done"} =>
               /\ progress.trialCount = loc.trialCount
               /\ progress.trialAttemptCount = loc.trialAttemptCount
               /\ progress.calls = CeilDiv(loc.trialAttemptCount, sim.roundsPerCycle))
        /\ (pc = "done" =>
               progress.calls = CeilDiv(promise.totalTrialAttempts, sim.roundsPerCycle))

\* the callback is made at the end of a batch and the yield follows it
ProgressSteps ==
    /\ progress' # progress =>
          /\ pc = "progress" /\ pc' = "yield"
          /\ loc' = loc
          /\ progress'.calls = progress.calls + 1
          /\ progress'.trialCount = loc.trialCount
          /\ progress'.trialAttemptCount = loc.trialAttemptCount
          /\ progress'.trialCount >= progress.trialCount
          /\ progress'.trialAttemptCount > progress.trialAttemptCount
    /\ pc = "yield" => (loc' = loc /\ progress' = progress /\ pc' \in {"yield", "test"})
    /\ (pc = "progress" /\ pc' \notin {"progress", "catch"}) =>
          progress'.calls = progress.calls + 1
    /\ loc' # loc => pc \in {"idle", "loop", "progress", "then"}

\* C20: the progress callback is made once per batch, after the deals of the
\* batch and before the yield, the last batch included, with the counts
\* reached; a batch deals at most roundsPerCycle rounds (100, or 500 for a
\* cpuHog); nothing is dealt between a callback and the yield; a completed run
\* has made ceil(totalTrialAttempts / roundsPerCycle) callbacks, with counts
\* that never go down.
C20_ProgressOncePerBatch == [](ProgressInStep) /\ [][ProgressSteps]_vars

\* a completed run of two batches, the second one partial
C20_Witness ==
    /\ pc = "done"
    /\ progress.calls = 2
    /\ sim.roundsPerCycle = NORMAL_ROUNDS_PER_CYCLE
    /\ promise.totalTrialAttempts > NORMAL_ROUNDS_PER_CYCLE
    /\ promise.totalTrialAttempts < 2 * NORMAL_ROUNDS_PER_CYCLE

----------------------------------------------------------------------------
(* The HandImprovementSimulator *)

----------------------------------------------------------------------------
(* Comparison within one category (specification Spec) *)

\* the fields of a result that rank it within its category, the first one
\* the most significant
CategoryFields(result) ==
    CASE result.type \in {"straight-flush", "straight"} -> <<result.highValue>>
      [] result.type \in {"four-of-a-kind", "three-of-a-kind", "pair"} ->
           <<result.value>> \o result.kickerValues
      [] result.type = "full-house" -> <<result.threeValue, result.twoValue>>
      [] result.type \in {"flush", "high-cards"} -> result.kickerValues
      [] result.type = "two-pair" -> result.values \o result.kickerValues

\* how many fields a category has
FieldCount(type) ==
    CASE type \in {"straight-flush", "straight"} -> 1
      [] type \in {"four-of-a-kind", "full-house"} -> 2
      [] type \in {"three-of-a-kind", "two-pair"} -> 3
      [] type = "pair" -> 4
      [] type \in {"flush", "high-cards"} -> 5

IsDescending(values) == \A k \in 1..(Len(values) - 1) : values[k] > values[k + 1]

\* the fields are as many as the category has, and values that are listed
\* as a group (kickers, the five values, the two pair values) are in
\* descending order
WellFormedFields(result) ==
    /\ Len(CategoryFields(result)) = FieldCount(result.type)
    /\ result.type \in {"four-of-a-kind", "three-of-a-kind", "pair", "flush",
                        "high-cards", "two-pair"} => IsDescending(result.kickerValues)
    /\ result.type = "two-pair" => IsDescending(result.values)

\* -1 when the first field that differs is larger in x, 1 when it is
\* smaller, 0 when no field differs
Lexicographic(x, y) ==
    IF x = y THEN 0
    ELSE LET d == CHOOSE k \in 1..Len(x) : x[k] # y[k] /\ \A j \in 1..(k - 1) : x[j] = y[j]
         IN  IF x[d] > y[d] THEN -1 ELSE 1

\* C21: for two results of one category compareHandResults compares the
\* fields of the category lexicographically, the most significant first:
\* -1 when the first differing field is larger in the first result, 1 when
\* it is smaller, 0 when all fields are equal; the suits and the cards of the
\* results do not matter.
C21_LexicographicWithinCategory ==
    (call = "compareHandResults" /\ operands[1].type = operands[2].type) =>
        /\ WellFormedFields(operands[1])
        /\ WellFormedFields(operands[2])
        /\ returned = Return(Lexicographic(CategoryFields(operands[1]),
                                           CategoryFields(operands[2])))

\* two results of two pairs of equal values, the first with cards of suit 1
\* and the second without: the kicker decides
C21_Witness ==
    /\ call = "compareHandResults"
    /\ operands[1].type = "two-pair"
    /\ operands[2].type = "two-pair"
    /\ operands[1].values = operands[2].values
    /\ operands[1].kickerValues[1] < operands[2].kickerValues[1]
    /\ SuitCards(Range(operands[1].cardIds), 1) # {}
    /\ SuitCards(Range(operands[2].cardIds), 1) = {}
    /\ returned = Return(1)

----------------------------------------------------------------------------
(* The two-pair detector (specification Spec) *)

CardsOfValue(cardIds, value) == {c \in cardIds : getCardComponents(c).value = value}

\* the values that two or more cards of the hand have
PairedValues(h) ==
    {v \in ValuesOf(Range(h)) : Cardinality(CardsOfValue(Range(h), v)) >= 2}

MaxOf(S) == CHOOSE x \in S : \A y \in S : y <= x

\* the evaluation is made of two cards of each of the two highest paired
\* values, the higher first, and then of the highest card of the rest of the
\* hand
IsTwoHighestPairs(evaluation, h) ==
    LET v1 == MaxOf(PairedValues(h))
        v2 == MaxOf(PairedValues(h) \ {v1})
        cardIds == evaluation.cardIds
        pairCards == {cardIds[k] : k \in 1..4}
    IN  /\ evaluation.type = "two-pair"
        /\ evaluation.values = <<v1, v2>>
        /\ Len(cardIds) = 5
        /\ Cardinality(Range(cardIds)) = 5
        /\ Range(cardIds) \subseteq Range(h)
        /\ Cardinality(CardsOfValue(pairCards, v1)) = 2
        /\ Cardinality(CardsOfValue(pairCards, v2)) = 2
        /\ Len(evaluation.kickerValues) = 1
        /\ getCardComponents(cardIds[5]).value = evaluation.kickerValues[1]
        /\ evaluation.kickerValues[1] = MaxOf(ValuesOf(Range(h) \ pairCards))

\* C22: for every valid hand in which two or more values occur on two or
\* more cards each, the two-pair detector reports the two highest of these
\* values, the higher first, two cards of each, and as its one kicker the
\* highest card of the rest. (A value on three cards comes before a higher
\* value on two in cardGroupsBySize, and is then reported first.)
C22_TwoHighestPairs ==
    (call = "two-pair" /\ IsValidHand(hand) /\ Cardinality(PairedValues(hand)) >= 2) =>
        /\ ~returned.threw
        /\ returned.val # Null
        /\ IsTwoHighestPairs(returned.val, hand)

\* what holds of the detector: the claim, for the hands in which no value
\* occurs on more cards than a higher paired value does
C22_TwoHighestPairsOfOrderedGroups ==
    (/\ call = "two-pair"
     /\ IsValidHand(hand)
     /\ Cardinality(PairedValues(hand)) >= 2
     /\ \A v \in PairedValues(hand), w \in PairedValues(hand) :
           v < w => Cardinality(CardsOfValue(Range(hand), v))
                      <= Cardinality(CardsOfValue(Range(hand), w)))
    => /\ ~returned.threw
       /\ returned.val # Null
       /\ IsTwoHighestPairs(returned.val, hand)

\* three twos and two Aces: the detector reports the twos before the Aces
C22_Witness ==
    /\ call = "two-pair"
    /\ Len(hand) = 5
    /\ PairedValues(hand) = {2, ACE}
    /\ Cardinality(CardsOfValue(Range(hand), 2)) = 3
    /\ ~returned.threw
    /\ returned.val.values = <<2, ACE>>

----------------------------------------------------------------------------
(* The flush-draw detector (specification Spec) *)

\* the cards of one suit, the highest first
RECURSIVE DescendingByValue(_)
DescendingByValue(cardIds) ==
    IF cardIds = {} THEN <<>>
    ELSE LET top == CHOOSE c \in cardIds :
                       \A d \in cardIds : getCardComponents(d).value <= getCardComponents(c).value
         IN  <<top>> \o DescendingByValue(cardIds \ {top})

\* the largest number of cards of the hand that share a suit
LongestSuit(h) == MaxOf({Cardinality(SuitCards(Range(h), suit)) : suit \in 1..4})

FlushDrawsListed ==
    {returned.val.evaluations[k] : k \in {j \in 1..Len(returned.val.evaluations) :
                                            returned.val.evaluations[j].type = "flush-draw"}}

\* C23: on a valid hand of 5 or 6 cards the flush-draw detector returns an
\* evaluation exactly when the largest number of cards that share a suit is
\* at least max(3, size of the hand - 2); the evaluation names that suit and
\* the up to 5 highest cards of it, in descending value, and remainingCards
\* is 5 minus the number of these cards; otherwise it returns null. A
\* flush-draw listed by getFullEvaluation has remainingCards 1 or 2.
C23_FlushDraw ==
    /\ (call = "flush-draw" /\ IsValidHand(hand) /\ Len(hand) \in 5..6) =>
          /\ ~returned.threw
          /\ IF LongestSuit(hand) >= Max(3, Len(hand) - 2)
             THEN /\ returned.val # Null
                  /\ returned.val.type = "flush-draw"
                  /\ Cardinality(SuitCards(Range(hand), returned.val.suit)) = LongestSuit(hand)
                  /\ returned.val.cardIds =
                        Take(DescendingByValue(SuitCards(Range(hand), returned.val.suit)), 5)
                  /\ returned.val.kickerValues =
                        [k \in 1..Len(returned.val.cardIds) |->
                            getCardComponents(returned.val.cardIds[k]).value]
                  /\ returned.val.remainingCards = 5 - Len(returned.val.cardIds)
             ELSE returned.val = Null
    /\ (call = "getFullEvaluation" /\ IsValidHand(hand)) =>
          /\ ~returned.threw
          /\ \A evaluation \in FlushDrawsListed : evaluation.remainingCards \in 1..2

\* six cards, three of them of one suit, are no flush-draw
C23_Witness ==
    /\ call = "flush-draw"
    /\ Len(hand) = 6
    /\ IsValidHand(hand)
    /\ LongestSuit(hand) = 3
    /\ returned = Return(Null)

----------------------------------------------------------------------------
(* The straight-draw detector (specification Spec) *)

\* the five values of the straight that ends at head, the Ace standing for
\* the value below 2 as well
StraightValues(head) == {IF head - k = ACE_LOW THEN ACE ELSE head - k : k \in 0..4}

MissingValues(h, head) == StraightValues(head) \ ValuesOf(Range(h))

\* the heads that miss few enough values
QualifyingHeads(h) ==
    {head \in FIVE..ACE : Cardinality(MissingValues(h, head)) <= 5 - Max(3, Len(h) - 2)}

\* of the qualifying heads that miss the same values, the highest
KeptHeads(h) ==
    {head \in QualifyingHeads(h) :
        \A higher \in QualifyingHeads(h) :
            higher > head => MissingValues(h, higher) # MissingValues(h, head)}

----------------------------------------------------------------------------
(* compareHandResults on objects that are no results (specification Spec) *)

Categories ==
    {"straight-flush", "four-of-a-kind", "full-house", "flush", "straight",
     "three-of-a-kind", "two-pair", "pair", "high-cards"}

UnknownTagGiven ==
    /\ call = "compareHandResults(evaluation)"
    /\ (operands[1].type \notin Categories \/ operands[2].type \notin Categories)

\* C25: compareHandResults given an object whose type is none of the nine
\* categories (a flush-draw, a straight-draw) returns no value, it throws an
\* internal error and not an invalid-argument error. (It throws an
\* invalid-argument error.)
C25_UnknownTagIsInternalError ==
    UnknownTagGiven => returned = Throw(INTERNAL_ERROR)

\* C25, as the code has it: compareHandResults given an object whose type is
\* none of the nine categories, as its first or as its second argument,
\* returns no value and throws an invalid-argument error.
C25_UnknownTagIsInvalidArgument ==
    UnknownTagGiven => returned = Throw(INVALID_ARGUMENT)

\* a result as the first argument and its hand's flush-draw as the second
C25_Witness ==
    /\ call = "compareHandResults(evaluation)"
    /\ operands[1].type = "pair"
    /\ operands[2].type = "flush-draw"
    /\ returned = Throw(INVALID_ARGUMENT)

----------------------------------------------------------------------------
(* getPocketEvaluation (specification PocketSpec) *)

MinOf(S) == CHOOSE x \in S : \A y \in S : x <= y

\* what a value counts as: the Ace as 14 and as 1
CountsAs(value) == IF value = ACE THEN {ACE, ACE_LOW} ELSE {value}

Distance(x, y) == IF x >= y THEN x - y ELSE y - x

SmallestGap(v, w) == MinOf({Distance(x, y) : x \in CountsAs(v), y \in CountsAs(w)})

\* C26: for two distinct cards getPocketEvaluation reports pairValue, not
\* null, exactly when the two values are equal, and valueSpread null exactly
\* then; for two values that differ valueSpread is their smallest gap, the
\* Ace counting as 14 or as 1; inclusiveStraightCount is the number of
\* straights (heads Ace to Five, the Ace in the highest and in the lowest)
\* that hold both values and semiInclusiveStraightCount the number of those
\* that hold exactly one; a pocket pair has inclusiveStraightCount 0.
C26_PocketEvaluation ==
    (/\ call = "getPocketEvaluation"
     /\ Len(operands[1]) = 2
     /\ operands[1][1] # operands[1][2])
    => LET v == getCardComponents(operands[1][1]).value
           w == getCardComponents(operands[1][2]).value
           eval == returned.val
       IN  /\ ~returned.threw
           /\ (eval.pairValue # Null) <=> (v = w)
           /\ (eval.valueSpread = Null) <=> (v = w)
           /\ (v = w) =>
                 /\ eval.pairValue = Number(v)
                 /\ eval.inclusiveStraightCount = 0
           /\ (v # w) =>
                 /\ eval.valueSpread = Number(SmallestGap(v, w))
                 /\ eval.inclusiveStraightCount =
                       Cardinality({head \in FIVE..ACE : {v, w} \subseteq StraightValues(head)})
           /\ eval.semiInclusiveStraightCount =
                 Cardinality({head \in FIVE..ACE :
                                 Cardinality({v, w} \cap StraightValues(head)) = 1})

\* an Ace and a two, the Ace given second: one apart, together in the wheel
\* only, and one of them alone in the straights to Six and to the Ace
C26_Witness ==
    /\ call = "getPocketEvaluation"
    /\ Len(operands[1]) = 2
    /\ getCardComponents(operands[1][1]).value = 2
    /\ getCardComponents(operands[1][2]).value = ACE
    /\ ~returned.threw
    /\ returned.val.valueSpread = Number(1)
    /\ returned.val.inclusiveStraightCount = 1
    /\ returned.val.semiInclusiveStraightCount = 2

----------------------------------------------------------------------------
(* The decks of the rounds (specification DealSpec) *)

\* every identifier of 1..52 exactly once
IsFullDeck(deck) == Len(deck) = 52 /\ Range(deck) = 1..52

RoundPlayed == call \in RoundCalls

\* C27: the deck of every round, shuffled or stacked with placements that
\* do not overlap, holds each identifier of 1..52 exactly once, whatever the
\* RNG returns (the index drawn for position n lies in n..51); and no
\* accessor of the round changes the deck of the round.
C27_DeckIsPermutation ==
    /\ [](RoundPlayed => IsFullDeck(operands[1].deck))
    /\ [](call = "none" =>
            \A from \in 0..51, k \in 1..52 :
                randomInt(operands[1].rng, k, from, 51) \in from..51)
    /\ [][RoundPlayed => (RoundPlayed' /\ operands'[1] = operands[1])]_vars

\* a shuffled deck that is not the unshuffled deck, after the winners of the
\* round were asked for
C27_Witness ==
    /\ call = "getWinningPlayers"
    /\ ~returned.threw
    /\ operands[1].deck[1] # 1
    /\ operands[1].deck[52] # 52
    /\ IsFullDeck(operands[1].deck)

----------------------------------------------------------------------------
(* The cards of the players and of the table (specification DealSpec) *)

\* the cards at the 0-based positions first .. first + count - 1 of the deck
CardsAt(deck, first, count) == [k \in 1..count |-> deck[first + k]]

CommunityCount(roundPart) ==
    CASE roundPart = "preflop" -> 0
      [] roundPart = "flop" -> 3
      [] roundPart = "turn" -> 4
      [] roundPart = "river" -> 5

IsPrefix(s, t) == Len(s) <= Len(t) /\ \A k \in 1..Len(s) : s[k] = t[k]

PocketOf(round, player) == CardsAt(round.deck, 2 * player, 2)

CommunityOf(round, roundPart) ==
    CardsAt(round.deck, 2 * round.numPlayers, CommunityCount(roundPart))

\* C28: in a round of N players, 1 to 10, on a deck of 52 distinct cards,
\* the pocket of player p is the cards at positions 2p and 2p+1 of the deck;
\* the community at the flop, the turn and the river is the first 3, 4 and 5
\* cards from position 2N on, and empty before the flop, so that the flop is
\* a prefix of the turn and the turn of the river; the pockets of two
\* players and the community have no card in common; and the cards of a
\* player at the river are 7 distinct cards.
C28_DealPositions ==
    RoundPlayed =>
        LET round == operands[1]
            players == 0..(round.numPlayers - 1)
        IN  /\ round.numPlayers \in 1..10
            /\ (call = "getPocketCards" /\ operands[2][1] = Omitted) =>
                  returned = Return(PocketOf(round, 0))
            /\ (call = "getPocketCards" /\ operands[2][1] # Omitted
                                        /\ operands[2][1][1] \in players) =>
                  returned = Return(PocketOf(round, operands[2][1][1]))
            /\ (call = "getCommunityCards" /\ operands[2][1] \in RoundParts) =>
                  returned = Return(CommunityOf(round, operands[2][1]))
            /\ call = "getPlayerAvailableCards" =>
                  /\ returned = Return(PocketOf(round, operands[2][1][1])
                                          \o CommunityOf(round, operands[2][2]))
                  /\ operands[2][2] = "river" =>
                        (Len(returned.val) = 7 /\ Cardinality(Range(returned.val)) = 7)
            /\ getCommunityCards(round, "preflop") = Return(<<>>)
            /\ IsPrefix(getCommunityCards(round, "flop").val, getCommunityCards(round, "turn").val)
            /\ IsPrefix(getCommunityCards(round, "turn").val, getCommunityCards(round, "river").val)
            /\ Len(getCommunityCards(round, "flop").val) = 3
            /\ Len(getCommunityCards(round, "turn").val) = 4
            /\ Len(getCommunityCards(round, "river").val) = 5
            /\ \A p \in players :
                  /\ Range(getPocketCards(round, Given(p)).val)
                        \cap Range(getCommunityCards(round, "river").val) = {}
                  /\ \A q \in players \ {p} :
                        Range(getPocketCards(round, Given(p)).val)
                           \cap Range(getPocketCards(round, Given(q)).val) = {}

\* the last of ten players at the river, on a shuffled deck
C28_Witness ==
    /\ call = "getPlayerAvailableCards"
    /\ operands[1].numPlayers = 10
    /\ operands[1].deck[19] # 19
    /\ operands[2] = <<Given(9), "river">>
    /\ returned = Return(CardsAt(operands[1].deck, 18, 2) \o CardsAt(operands[1].deck, 20, 5))

----------------------------------------------------------------------------
(* getFullEvaluation and getHandResult (specification Spec) *)

PairedFamily == {"four-of-a-kind", "full-house", "three-of-a-kind", "two-pair", "pair", "high-cards"}

FlushFamily == {"straight-flush", "flush", "flush-draw"}

StraightFamily == {"straight", "straight-draw"}

ListedOf(evaluations, family) ==
    {k \in 1..Len(evaluations) : evaluations[k].type \in family}

\* C29: for every valid hand the result of getFullEvaluation is the result
\* of getHandResult, with the same category and the same fields. It is one
\* of the listed evaluations and never a draw; every other listed flush or
\* straight, or paired hand, is strictly weaker; and 1 to 3 evaluations are
\* listed, at most one of each family (paired hands, flush and flush-draw,
\* straight and straight-draw).
C29_FullEvaluationAgrees ==
    (call = "getFullEvaluation" /\ IsValidHand(hand)) =>
        /\ ~returned.threw
        /\ Return(returned.val.result) = getHandResult(hand)
        /\ LET evaluations == returned.val.evaluations
               result == returned.val.result
           IN  /\ result.type \in Categories
               /\ \E k \in 1..Len(evaluations) : evaluations[k] = result
               /\ \A k \in 1..Len(evaluations) :
                     (evaluations[k].type \in Categories /\ evaluations[k] # result) =>
                         compareHandResults(result, evaluations[k]) = Return(-1)
               /\ Len(evaluations) \in 1..3
               /\ Cardinality(ListedOf(evaluations, PairedFamily)) <= 1
               /\ Cardinality(ListedOf(evaluations, FlushFamily)) <= 1
               /\ Cardinality(ListedOf(evaluations, StraightFamily)) <= 1

\* high cards that hold a flush and a straight: three evaluations, the flush
\* is the result
C29_Witness ==
    /\ call = "getFullEvaluation"
    /\ IsValidHand(hand)
    /\ ~returned.threw
    /\ Len(returned.val.evaluations) = 3
    /\ returned.val.evaluations[1].type = "high-cards"
    /\ returned.val.evaluations[2].type = "flush"
    /\ returned.val.evaluations[3].type = "straight"
    /\ returned.val.result = returned.val.evaluations[2]

----------------------------------------------------------------------------
(* compareHandResults as an order (specification Spec) *)

\* a is at least as strong as b
AtLeastAsStrong(a, b) ==
    LET c == compareHandResults(a, b) IN ~c.threw /\ c.val <= 0

\* the loop of getWinningPlayers over the results of the players as seated
RECURSIVE WinnersOfSeating(_, _, _)
WinnersOfSeating(results, player, current) ==
    IF player >= Len(results) THEN Return(current.winners)
    ELSE LET next == considerPlayer(current, player, results[player + 1])
         IN  IF next.threw THEN next
             ELSE WinnersOfSeating(results, player + 1, next.val)

\* the results of the winners of a seating
WinningResults(results) ==
    LET winners == WinnersOfSeating(results, 0, NoWinners)
    IN  IF winners.threw THEN {}
        ELSE {results[winners.val[k] + 1] : k \in 1..Len(winners.val)}

Seatings(a, b, c) ==
    {<<a, b, c>>, <<a, c, b>>, <<b, a, c>>, <<b, c, a>>, <<c, a, b>>, <<c, b, a>>}

\* the results that are at least as strong as every result of the set
Strongest(results) == {r \in results : \A x \in results : AtLeastAsStrong(r, x)}

\* the results of the test table of a category of the two results compared
ThirdResults == {c \in ReferenceResults : c.type \in {operands[1].type, operands[2].type}}

\* the third players of the seatings, for two results of one category of
\* which the first is not the weaker (the two are compared in the other
\* order as well): the results of the test table of that category
ThirdPlayers ==
    IF returned.threw \/ returned.val > 0 \/ operands[1].type # operands[2].type THEN {}
    ELSE {c \in ReferenceResults : c.type = operands[1].type}

\* C30: on results of getHandResult compareHandResults is a total preorder.
\* It never throws and returns -1, 0 or 1; compareHandResults(b, a) is the
\* opposite of compareHandResults(a, b); it is transitive; and the loop of
\* getWinningPlayers finds the same winning results, the strongest ones, in
\* whatever order the players are seated.
C30_TotalPreorder ==
    call = "compareHandResults" =>
        LET a == operands[1]
            b == operands[2]
        IN  /\ ~returned.threw
            /\ returned.val \in {-1, 0, 1}
            /\ compareHandResults(b, a) = Return(0 - returned.val)
            /\ \A c \in ThirdResults :
                  /\ (AtLeastAsStrong(a, b) /\ AtLeastAsStrong(b, c)) => AtLeastAsStrong(a, c)
                  /\ (AtLeastAsStrong(c, a) /\ AtLeastAsStrong(a, b)) => AtLeastAsStrong(c, b)
            /\ \A c \in ThirdPlayers :
                  /\ Strongest({a, b, c}) # {}
                  /\ \A seating \in Seatings(a, b, c) :
                        WinningResults(seating) = Strongest({a, b, c})

\* two pairs out of seven cards against the same two pairs out of five
\* cards: one kicker each, and a tie
C30_Witness ==
    /\ call = "compareHandResults"
    /\ Len(hand) = 7
    /\ operands[1].type = "two-pair"
    /\ operands[2].type = "two-pair"
    /\ Range(operands[1].cardIds) \subseteq Range(hand)
    /\ ~(Range(operands[2].cardIds) \subseteq Range(hand))
    /\ Len(operands[1].kickerValues) = 1
    /\ Len(operands[2].kickerValues) = 1
    /\ returned = Return(0)

====
